---- MODULE Spec2Model ----
(***************************************************************************)
(* State-machine model of the Polymarket trade indexer:                    *)
(*   stage1/src/trade_decoder.py   decode_transaction, parse_order_filled  *)
(*   stage2/src/ctf/trade_decoder.py  decode_order_filled                  *)
(*   stage2/src/indexer/run.py     run_indexer, index_single_transaction   *)
(*   stage2/src/db/store.py        insert_trades, update_sync_state, ...   *)
(*   stage2/src/db/schema.py       the UNIQUE constraints of the tables    *)
(*                                                                         *)
(* Representation of the Python values:                                    *)
(*   - an address string is [hex |-> 40 lowercase hex digits, cs |-> B]:   *)
(*     cs = TRUE is the EIP-55 checksum spelling, FALSE the all-lowercase  *)
(*     spelling; to_checksum_address and str.lower switch the spelling.    *)
(*   - a 32-byte topic that carries an address is [hi |-> .., lo |-> ..],  *)
(*     the first 24 and the last 40 hex digits of its text.                *)
(*   - the data payload is a sequence of bytes (0..255).                   *)
(*   - a hex string "0x..." is [zeros |-> the number of leading '0'        *)
(*     characters after "0x", digits |-> the digits after them]; a digit   *)
(*     0..15 is 0-9a-f, 20..25 is a capital A-F.                           *)
(*   - str(int) is the sequence of decimal digits.                         *)
(***************************************************************************)
EXTENDS Integers, Sequences, FiniteSets, TLC

\* ------------------------------------------------------------------ bounds
\* Highest block number a caller passes as from_block / to_block.  The logs
\* of the chain are in blocks 1..3; the blocks above hold none.
MaxBlock == 4
\* Longest list a caller passes directly to insert_trades.
MaxBatch == 2
\* Highest value of the markets table's AUTOINCREMENT sequence explored.
MaxMarketSeq == 1
\* Largest sqlite_sequence value of table events that is explored.
MaxEventSeq == 1
\* Number of upsert_market calls made on the registry taken by itself.
MaxRegistrySeq == 3
\* Longest list of markets an event carries, and number of discover_markets calls.
MaxEventMarkets == 2
MaxDiscoverCalls == 2
\* Largest limit, cursor and block number passed to a query.
MaxLimit == 2
MaxCursor == 2
MaxQueryBlock == 2
\* Largest number of trades in the store that the queries are asked of.
MaxStoredTrades == 3
\* Largest asset id and largest small amount in the data slots of a decoded log.
MaxAsset == 2
MaxAmount == 3
\* Largest number a token id of the market metadata stands for.
MaxTokenValue == 10

\* ------------------------------------------------------- program constants
SlotBytes == 32
HexWidth == 64
PriceDecimals == 6

CTF_EXCHANGE == [hex |-> "4bfb41d5b3570defd03c39a9a4d8de6bd8b8982e", cs |-> TRUE]
NEGRISK_CTF_EXCHANGE == [hex |-> "c5d563a36ae78145c45a50134d48a1215220f80a", cs |-> TRUE]
ORDER_FILLED_TOPIC == "keccak(OrderFilled(bytes32,address,address,uint256,uint256,uint256,uint256,uint256))"

\* ---------------------------------------------------------- Python helpers
Min(a, b) == IF a < b THEN a ELSE b

\* Web3.to_checksum_address(s): the same address in checksum spelling.
to_checksum_address(a) == [a EXCEPT !.cs = TRUE]

\* str.lower() on an address string.
lower_addr(a) == [a EXCEPT !.cs = FALSE]

\* str.lower() on one hex digit and on a hex string.
lower_digit(c) == IF c >= 20 THEN c - 10 ELSE c
lower_hex(s) == [s EXCEPT !.digits = [i \in 1..Len(s.digits) |-> lower_digit(s.digits[i])]]

\* Python slice b[lo:hi] of a bytes value: clipped to the length, never an error.
Slice(b, lo, hi) == SubSeq(b, lo + 1, Min(hi, Len(b)))

\* int.from_bytes(b, 'big'); the empty bytes value gives 0.
RECURSIVE from_bytes(_)
from_bytes(b) ==
  IF Len(b) = 0 THEN 0
  ELSE from_bytes(SubSeq(b, 1, Len(b) - 1)) * 256 + b[Len(b)]

\* The digits of n in the given base, most significant first ("0" for 0).
RECURSIVE Digits(_, _)
Digits(n, base) ==
  IF n < base THEN <<n>> ELSE Append(Digits(n \div base, base), n % base)

\* str(n) for a non-negative int.
str_int(n) == Digits(n, 10)

\* f"0x{n:064x}": lowercase hex, zero-padded on the left to 64 digits.
hex064(n) ==
  LET d == IF n = 0 THEN <<>> ELSE Digits(n, 16)
  IN  [zeros |-> IF Len(d) >= HexWidth THEN 0 ELSE HexWidth - Len(d), digits |-> d]

\* The first k digits after the decimal point of r / b (0 <= r < b), and the
\* remainder left after them: <<digits, remainder>>.
RECURSIVE FracDigits(_, _, _)
FracDigits(r, b, k) ==
  IF k = 0 THEN <<<<>>, r>>
  ELSE LET rest == FracDigits((r * 10) % b, b, k - 1)
       IN  << <<(r * 10) \div b>> \o rest[1], rest[2] >>

RECURSIVE DigitsValue(_)
DigitsValue(d) ==
  IF Len(d) = 0 THEN 0 ELSE DigitsValue(SubSeq(d, 1, Len(d) - 1)) * 10 + d[Len(d)]

RECURSIVE rstrip_zeros(_)
rstrip_zeros(d) ==
  IF Len(d) > 0 /\ d[Len(d)] = 0 THEN rstrip_zeros(SubSeq(d, 1, Len(d) - 1)) ELSE d

Pow10(k) == IF k = 0 THEN 1 ELSE IF k = 1 THEN 10 ELSE IF k = 2 THEN 100
            ELSE IF k = 3 THEN 1000 ELSE IF k = 4 THEN 10000
            ELSE IF k = 5 THEN 100000 ELSE 1000000

\* The quotient cut after six decimals instead of rounded.
format_price_floor(a, b) ==
  IF b = 0 THEN [int |-> 0, frac |-> <<>>]
  ELSE [int |-> a \div b, frac |-> rstrip_zeros(FracDigits(a % b, b, PriceDecimals)[1])]

\* Decimal(a) / Decimal(b) formatted with f"{price:.6f}" (round half even),
\* then .rstrip('0').rstrip('.'): [int |-> integer part, frac |-> the digits
\* kept after the point]; frac = <<>> means no decimal point is printed.
\* b = 0 stands for the code's Decimal(0) branch.
format_price(a, b) ==
  IF b = 0 THEN [int |-> 0, frac |-> <<>>]
  ELSE
    LET q     == a \div b
        fd    == FracDigits(a % b, b, PriceDecimals)
        f     == DigitsValue(fd[1])
        rem   == fd[2]
        up    == (2 * rem > b) \/ (2 * rem = b /\ f % 2 = 1)
        f2    == IF up THEN f + 1 ELSE f
        carry == f2 = Pow10(PriceDecimals)
        fi    == IF carry THEN 0 ELSE f2
        raw   == Digits(fi, 10)
        padded == [i \in 1..(PriceDecimals - Len(raw)) |-> 0] \o raw
    IN  [int |-> IF carry THEN q + 1 ELSE q, frac |-> rstrip_zeros(padded)]

\* str(Decimal(amount) / Decimal(10**6)): the quotient is exact (at most six
\* decimals); Decimal division keeps no trailing zeros.
format_size(amount) ==
  LET raw    == Digits(amount % Pow10(6), 10)
      padded == [i \in 1..(6 - Len(raw)) |-> 0] \o raw
  IN  [int |-> amount \div Pow10(6), frac |-> rstrip_zeros(padded)]

\* datetime.utcfromtimestamp(t).strftime('%Y-%m-%dT%H:%M:%S'); the calendar
\* date is kept as the day number since the epoch.
format_timestamp(t) ==
  [day |-> t \div 86400, hh |-> (t % 86400) \div 3600,
   mm |-> (t % 3600) \div 60, ss |-> t % 60]

\* ------------------------------------------------------------ the log source
\* A raw log is [address, topics, data, transactionHash, logIndex, blockNumber]
\* as the JSON-RPC node returns it: hashes and topics as str, data as bytes.
AddrTopic(a) == [hi |-> "000000000000000000000000", lo |-> a.hex]

\* abi uint256 word: 32 bytes, big-endian.
Word(n) == [i \in 1..(SlotBytes - 4) |-> 0]
           \o << (n \div 16777216) % 256, (n \div 65536) % 256, (n \div 256) % 256, n % 256 >>

RECURSIVE Words(_)
Words(ns) == IF Len(ns) = 0 THEN <<>> ELSE Word(ns[1]) \o Words(Tail(ns))

MAKER == [hex |-> "1111111111111111111111111111111111111111", cs |-> TRUE]
TAKER == [hex |-> "2222222222222222222222222222222222222222", cs |-> TRUE]
OTHER_CONTRACT == [hex |-> "3333333333333333333333333333333333333333", cs |-> TRUE]
OTHER_TOPIC == "keccak(OrdersMatched(bytes32,address,uint256,uint256,uint256,uint256))"

FillTopics(taker) == <<ORDER_FILLED_TOPIC, "0xorder", AddrTopic(MAKER), AddrTopic(taker)>>

MkLog(addr, topics, data, tx, li, bn) ==
  [address |-> addr, topics |-> topics, data |-> data,
   transactionHash |-> tx, logIndex |-> li, blockNumber |-> bn]

\* makerAssetId=0, takerAssetId=1, 1000000 / 2000000: BUY of token 1 at 0.5.
LogBuyYes == MkLog(CTF_EXCHANGE, FillTopics(TAKER),
                   Words(<<0, 1, 1000000, 2000000, 0>>), "0xt1", 0, 1)
\* The exchange's own fill record of the same match: taker = the exchange.
LogSelfFill == MkLog(CTF_EXCHANGE, FillTopics(CTF_EXCHANGE),
                     Words(<<0, 1, 1000000, 2000000, 0>>), "0xt1", 1, 1)
\* An OrderFilled-shaped log of a contract that is no exchange.
LogOtherContract == MkLog(OTHER_CONTRACT, FillTopics(TAKER),
                          Words(<<0, 1, 1000000, 2000000, 0>>), "0xt1", 2, 1)
\* Another event of the exchange (first topic is not OrderFilled).
LogWrongTopic == MkLog(CTF_EXCHANGE,
                       <<OTHER_TOPIC, "0xorder", AddrTopic(MAKER), AddrTopic(TAKER)>>,
                       Words(<<0, 1, 1000000, 2000000, 0>>), "0xt1", 3, 1)
\* SELL of token 2 on the neg-risk exchange at 1000000 / 3000000.
LogSellNo == MkLog(NEGRISK_CTF_EXCHANGE, FillTopics(TAKER),
                   Words(<<2, 0, 3000000, 1000000, 5>>), "0xt2", 0, 2)
\* BUY of token 9, which no market description carries.
LogNoMarket == MkLog(CTF_EXCHANGE, FillTopics(TAKER),
                     Words(<<0, 9, 1000000, 4000000, 0>>), "0xt2", 1, 2)
\* Data payload of 64 bytes instead of 160: only the first two slots.
LogShortData == MkLog(CTF_EXCHANGE, FillTopics(TAKER),
                      Words(<<0, 1>>), "0xt3", 0, 2)
\* Three topics instead of four: the taker topic is missing.
LogThreeTopics == MkLog(CTF_EXCHANGE,
                        <<ORDER_FILLED_TOPIC, "0xorder", AddrTopic(MAKER)>>,
                        Words(<<0, 1, 1000000, 2000000, 0>>), "0xt4", 0, 3)

\* The chain, in (blockNumber, transaction, logIndex) order.
ChainLogs == << LogBuyYes, LogSelfFill, LogOtherContract, LogWrongTopic,
                LogSellNo, LogNoMarket, LogShortData, LogThreeTopics >>

TxHashes == {ChainLogs[i].transactionHash : i \in 1..Len(ChainLogs)}

\* w3.eth.get_block(n)['timestamp']
BlockTimestamp(n) == 1700000000 + 2 * n

\* w3.eth.get_transaction_receipt(tx)['logs'] and ['blockNumber']
ReceiptLogs(tx) ==
  LET InTx(l) == l.transactionHash = tx IN SelectSeq(ChainLogs, InTx)

get_transaction_block(tx) == ReceiptLogs(tx)[1].blockNumber

\* w3.eth.get_logs({fromBlock, toBlock, address, topics: [ORDER_FILLED_TOPIC]}):
\* the node's filter on block range, emitting address and first topic.
fetch_logs(from_block, to_block, exchange_addresses) ==
  LET Match(l) ==
        /\ from_block <= l.blockNumber /\ l.blockNumber <= to_block
        /\ \E a \in exchange_addresses : lower_addr(a) = lower_addr(l.address)
        /\ Len(l.topics) >= 1 /\ l.topics[1] = ORDER_FILLED_TOPIC
  IN  SelectSeq(ChainLogs, Match)

\* ------------------------------------------------------- trade-fill decoders
\* The body shared by decode_order_filled (stage2) and parse_order_filled_log
\* (stage1): topics[1..3] (IndexError when the list is shorter), the five data
\* slots, the side/price rule.  Returns [ok, error, trades]: trades is the
\* one-element list of the Trade, or empty when the call raises.
FillFields(log, exchange) ==
  IF Len(log.topics) < 4
  THEN [ok |-> FALSE, error |-> "IndexError", trades |-> <<>>]
  ELSE
    LET topics == log.topics
        data_bytes == log.data
        maker_asset_id == from_bytes(Slice(data_bytes, 0, SlotBytes))
        taker_asset_id == from_bytes(Slice(data_bytes, SlotBytes, 2 * SlotBytes))
        maker_amount_filled == from_bytes(Slice(data_bytes, 2 * SlotBytes, 3 * SlotBytes))
        taker_amount_filled == from_bytes(Slice(data_bytes, 3 * SlotBytes, 4 * SlotBytes))
        fee == from_bytes(Slice(data_bytes, 4 * SlotBytes, 5 * SlotBytes))
        buy == maker_asset_id = 0
    IN  [ok |-> TRUE, error |-> "none", trades |-> <<
          [tx_hash |-> log.transactionHash,
           log_index |-> log.logIndex,
           exchange |-> exchange,
           order_hash |-> topics[2],
           maker |-> to_checksum_address([hex |-> topics[3].lo, cs |-> FALSE]),
           taker |-> to_checksum_address([hex |-> topics[4].lo, cs |-> FALSE]),
           maker_asset_id |-> str_int(maker_asset_id),
           taker_asset_id |-> str_int(taker_asset_id),
           maker_amount |-> str_int(maker_amount_filled),
           taker_amount |-> str_int(taker_amount_filled),
           fee |-> str_int(fee),
           price |-> IF buy THEN format_price(maker_amount_filled, taker_amount_filled)
                            ELSE format_price(taker_amount_filled, maker_amount_filled),
           token_id |-> IF buy THEN hex064(taker_asset_id) ELSE hex064(maker_asset_id),
           side |-> IF buy THEN "BUY" ELSE "SELL"] >>]

\* stage1 parse_order_filled_log(log, exchange)
parse_order_filled_log(log, exchange) == FillFields(log, exchange)

\* The exchange a log address names: CTF_EXCHANGE, NEGRISK_CTF_EXCHANGE, or
\* none of them (stage1 skips the log, stage2 keeps str(log_address)).
ExchangeOf(log_address) ==
  IF to_checksum_address(log_address) = to_checksum_address(CTF_EXCHANGE)
    THEN <<CTF_EXCHANGE>>
  ELSE IF to_checksum_address(log_address) = to_checksum_address(NEGRISK_CTF_EXCHANGE)
    THEN <<NEGRISK_CTF_EXCHANGE>>
  ELSE <<>>

\* stage2 decode_order_filled(log)
decode_order_filled(log) ==
  LET known == ExchangeOf(log.address)
      exchange == IF Len(known) = 1 THEN known[1] ELSE to_checksum_address(log.address)
  IN  FillFields(log, exchange)

\* stage1 decode_transaction: one pass over the receipt's logs.  `acc` is the
\* list of trades built so far.  The taker topic is read outside the try block,
\* so a log with fewer than four topics raises out of the whole call.
RECURSIVE decode_logs(_, _)
decode_logs(logs, acc) ==
  IF Len(logs) = 0 THEN [ok |-> TRUE, error |-> "none", trades |-> acc]
  ELSE
    LET log == Head(logs)
        rest == Tail(logs)
        known == ExchangeOf(log.address)
    IN  IF Len(known) = 0 THEN decode_logs(rest, acc)
        ELSE IF Len(log.topics) = 0 THEN decode_logs(rest, acc)
        ELSE IF log.topics[1] # ORDER_FILLED_TOPIC THEN decode_logs(rest, acc)
        ELSE IF Len(log.topics) < 4
          THEN [ok |-> FALSE, error |-> "IndexError", trades |-> <<>>]
        ELSE IF lower_addr(to_checksum_address([hex |-> log.topics[4].lo, cs |-> FALSE]))
                  = lower_addr(known[1])
          THEN decode_logs(rest, acc)
        ELSE LET r == parse_order_filled_log(log, known[1])
             IN  IF r.ok THEN decode_logs(rest, acc \o r.trades)
                 ELSE decode_logs(rest, acc)

decode_transaction(tx_hash) == decode_logs(ReceiptLogs(tx_hash), <<>>)

\* ------------------------------------------------------------------- state
VARIABLES
  events,       \* committed rows of table events, in rowid order
  event_seq,    \* sqlite_sequence of events (AUTOINCREMENT)
  markets,      \* committed rows of table markets, in rowid order
  market_seq,   \* sqlite_sequence of markets (AUTOINCREMENT)
  trades,       \* committed rows of table trades, in rowid order (id = position)
  sync_state,   \* committed table sync_state: key -> last_block, for the keys present
  conn,         \* the connection's open transaction: its uncommitted view
  run,          \* the locals of the run_indexer call in progress
  peer,         \* the locals of a run_indexer call of a second process
  ret           \* what the last finished call returned or raised

vars == <<events, event_seq, markets, market_seq, trades, sync_state, conn, run, peer, ret>>

DEFAULT_KEY == "trade_indexer"
Keys == {DEFAULT_KEY}
Blocks == 1..MaxBlock
DefaultExchanges == {CTF_EXCHANGE, NEGRISK_CTF_EXCHANGE}

\* Market descriptions handed to upsert_market (columns without logic in the
\* indexer - event_id, question_id, oracle, collateral_token, title,
\* description, timestamps - are left out).
MarketInputs ==
  { [slug |-> "m1", condition_id |-> "0xc1", yes_token_id |-> hex064(1),
     no_token_id |-> hex064(2), status |-> "active"],
    [slug |-> "m1", condition_id |-> "0xc1", yes_token_id |-> hex064(1),
     no_token_id |-> hex064(2), status |-> "inactive"] }

\* ------------------------------------------------------------- store.py
\* INSERT OR REPLACE INTO markets: the conflicting row is deleted and the new
\* one stored under a fresh id.
upsert_market_replace(rows, seq, m) ==
  LET kept == SelectSeq(rows, LAMBDA r : r.condition_id # m.condition_id /\ r.slug # m.slug)
  IN  [ok |-> TRUE, error |-> "none",
       rows |-> Append(kept, [id |-> seq + 1, slug |-> m.slug,
                              condition_id |-> m.condition_id,
                              yes_token_id |-> m.yes_token_id,
                              no_token_id |-> m.no_token_id, status |-> m.status]),
       seq |-> seq + 1, id |-> seq + 1]

\* INSERT INTO markets ... ON CONFLICT(slug) DO UPDATE ...: a slug held by
\* another condition_id is no error, the row holding the slug is overwritten.
upsert_market_on_slug(rows, seq, m) ==
  LET known == {i \in 1..Len(rows) : rows[i].slug = m.slug}
  IN  IF known # {}
        THEN LET i == CHOOSE j \in known : TRUE
                 row == [id |-> rows[i].id, slug |-> m.slug,
                         condition_id |-> m.condition_id,
                         yes_token_id |-> m.yes_token_id,
                         no_token_id |-> m.no_token_id, status |-> m.status]
             IN  [ok |-> TRUE, error |-> "none", rows |-> [rows EXCEPT ![i] = row],
                  seq |-> seq + 1, id |-> rows[i].id]
      ELSE [ok |-> TRUE, error |-> "none",
            rows |-> Append(rows, [id |-> seq + 1, slug |-> m.slug,
                                   condition_id |-> m.condition_id,
                                   yes_token_id |-> m.yes_token_id,
                                   no_token_id |-> m.no_token_id, status |-> m.status]),
            seq |-> seq + 1, id |-> seq + 1]

\* INSERT INTO markets ... ON CONFLICT(condition_id) DO UPDATE ...; SELECT id.
\* UNIQUE(slug) is not the conflict target: a slug held by another
\* condition_id raises IntegrityError and changes nothing.
upsert_market(rows, seq, m) ==
  LET slugClash == \E i \in 1..Len(rows) :
                     rows[i].slug = m.slug /\ rows[i].condition_id # m.condition_id
      known == {i \in 1..Len(rows) : rows[i].condition_id = m.condition_id}
  IN  IF slugClash
        THEN [ok |-> FALSE, error |-> "IntegrityError", rows |-> rows, seq |-> seq, id |-> 0]
      ELSE IF known # {}
        THEN LET i == CHOOSE j \in known : TRUE
                 row == [id |-> rows[i].id, slug |-> m.slug,
                         condition_id |-> m.condition_id,
                         yes_token_id |-> m.yes_token_id,
                         no_token_id |-> m.no_token_id, status |-> m.status]
             IN  [ok |-> TRUE, error |-> "none", rows |-> [rows EXCEPT ![i] = row],
                  seq |-> seq + 1, id |-> rows[i].id]
      ELSE [ok |-> TRUE, error |-> "none",
            rows |-> Append(rows, [id |-> seq + 1, slug |-> m.slug,
                                   condition_id |-> m.condition_id,
                                   yes_token_id |-> m.yes_token_id,
                                   no_token_id |-> m.no_token_id, status |-> m.status]),
            seq |-> seq + 1, id |-> seq + 1]

\* A lookup without its WHERE clause: the first stored market, whatever the token.
fetch_first_market(rows, token_id) == IF Len(rows) = 0 THEN <<>> ELSE << rows[1] >>

\* SELECT ... FROM markets WHERE yes_token_id = ? OR no_token_id = ?; fetchone().
\* The list of the first matching row (empty: None).
fetch_market_by_token_id(rows, token_id) ==
  LET hits == {i \in 1..Len(rows) :
                 rows[i].yes_token_id = token_id \/ rows[i].no_token_id = token_id}
  IN  IF hits = {} THEN <<>>
      ELSE << rows[CHOOSE i \in hits : \A j \in hits : i <= j] >>

\* A UNIQUE constraint declared over (tx_hash, log_index, block_number).
UniqueViolation_WithBlock(rows, t) ==
  \E i \in 1..Len(rows) :
    /\ rows[i].tx_hash = t.tx_hash /\ rows[i].log_index = t.log_index
    /\ rows[i].block_number = t.block_number

\* UNIQUE(tx_hash, log_index) of table trades.
UniqueViolation(rows, t) ==
  \E i \in 1..Len(rows) : rows[i].tx_hash = t.tx_hash /\ rows[i].log_index = t.log_index

\* A trades table without the UNIQUE constraint: every INSERT succeeds.
InsertRow_NoConstraint(rows, t) ==
  [rows |-> Append(rows, [t EXCEPT !.id = Len(rows) + 1]), inserted |-> 1]

\* INSERT OR REPLACE INTO trades: a row with a stored (tx_hash, log_index)
\* takes the place of the stored one.
InsertRow_Replace(rows, t) ==
  IF UniqueViolation(rows, t)
  THEN LET kept == SelectSeq(rows, LAMBDA r : r.tx_hash # t.tx_hash \/ r.log_index # t.log_index)
       IN  [rows |-> Append(kept, [t EXCEPT !.id = Len(rows) + 1]), inserted |-> 1]
  ELSE [rows |-> Append(rows, [t EXCEPT !.id = Len(rows) + 1]), inserted |-> 1]

\* One cursor.execute(INSERT INTO trades ...) inside the try block: the new
\* table and whether the row went in (IntegrityError is swallowed).
InsertRow(rows, t) ==
  IF UniqueViolation(rows, t)
  THEN [rows |-> rows, inserted |-> 0]
  ELSE [rows |-> Append(rows, [t EXCEPT !.id = Len(rows) + 1]), inserted |-> 1]

\* insert_trades without the try/except around each INSERT: the first
\* IntegrityError ends the loop.
RECURSIVE insert_loop_abort(_, _, _)
insert_loop_abort(rows, batch, count) ==
  IF Len(batch) = 0 THEN [rows |-> rows, count |-> count]
  ELSE LET r == InsertRow(rows, Head(batch))
       IN  IF r.inserted = 0 THEN [rows |-> rows, count |-> count]
           ELSE insert_loop_abort(r.rows, Tail(batch), count + r.inserted)

\* insert_trades with inserted_count += 1 after the try block: duplicates are
\* counted as inserted.
RECURSIVE insert_loop_count_all(_, _, _)
insert_loop_count_all(rows, batch, count) ==
  IF Len(batch) = 0 THEN [rows |-> rows, count |-> count]
  ELSE LET r == InsertRow(rows, Head(batch))
       IN  insert_loop_count_all(r.rows, Tail(batch), count + 1)

\* The for loop of insert_trades over the batch: [rows, count].
RECURSIVE insert_loop(_, _, _)
insert_loop(rows, batch, count) ==
  IF Len(batch) = 0 THEN [rows |-> rows, count |-> count]
  ELSE LET r == InsertRow(rows, Head(batch))
       IN  insert_loop(r.rows, Tail(batch), count + r.inserted)

\* INSERT INTO sync_state ... ON CONFLICT(key) DO UPDATE SET last_block = excluded.last_block
update_sync_row(table, key, last_block) ==
  [k \in (DOMAIN table) \cup {key} |-> IF k = key THEN last_block ELSE table[k]]

\* get_sync_state: the list of the stored last_block (empty: None).
get_sync_state(table, key) == IF key \in DOMAIN table THEN <<table[key]>> ELSE <<>>

NoSync == [k \in {} |-> 0]

\* ------------------------------------------------------------ indexer/run.py
\* A parse_trade_from_log without its elif branch: a token that is not the YES
\* token of its market is labelled UNKNOWN.
trade_record_of_yes_only(trade, log, timestamp, rows) ==
  LET found == fetch_market_by_token_id(rows, trade.token_id)
  IN  IF Len(found) = 0 THEN <<>>
      ELSE
        LET market == found[1]
            outcome == IF lower_hex(trade.token_id) = lower_hex(market.yes_token_id) THEN "YES"
                       ELSE "UNKNOWN"
            amount == IF trade.side = "BUY" THEN trade.taker_amount ELSE trade.maker_amount
        IN  << [id |-> 0,
                market_id |-> market.id,
                tx_hash |-> trade.tx_hash,
                log_index |-> trade.log_index,
                block_number |-> log.blockNumber,
                timestamp |-> timestamp,
                exchange |-> trade.exchange,
                order_hash |-> trade.order_hash,
                maker |-> trade.maker,
                taker |-> trade.taker,
                side |-> trade.side,
                outcome |-> outcome,
                price |-> trade.price,
                size |-> format_size(DigitsValue(amount)),
                token_id |-> trade.token_id,
                maker_asset_id |-> trade.maker_asset_id,
                taker_asset_id |-> trade.taker_asset_id,
                maker_amount |-> trade.maker_amount,
                taker_amount |-> trade.taker_amount,
                fee |-> trade.fee] >>

\* parse_trade_from_log after a successful decode: the list of the trade
\* record (empty: None, no market for the token).
trade_record_of(trade, log, timestamp, rows) ==
  LET found == fetch_market_by_token_id(rows, trade.token_id)
  IN  IF Len(found) = 0 THEN <<>>
      ELSE
        LET market == found[1]
            outcome == IF lower_hex(trade.token_id) = lower_hex(market.yes_token_id) THEN "YES"
                       ELSE IF lower_hex(trade.token_id) = lower_hex(market.no_token_id) THEN "NO"
                       ELSE "UNKNOWN"
            amount == IF trade.side = "BUY" THEN trade.taker_amount ELSE trade.maker_amount
        IN  << [id |-> 0,
                market_id |-> market.id,
                tx_hash |-> trade.tx_hash,
                log_index |-> trade.log_index,
                block_number |-> log.blockNumber,
                timestamp |-> timestamp,
                exchange |-> trade.exchange,
                order_hash |-> trade.order_hash,
                maker |-> trade.maker,
                taker |-> trade.taker,
                side |-> trade.side,
                outcome |-> outcome,
                price |-> trade.price,
                size |-> format_size(DigitsValue(amount)),
                token_id |-> trade.token_id,
                maker_asset_id |-> trade.maker_asset_id,
                taker_asset_id |-> trade.taker_asset_id,
                maker_amount |-> trade.maker_amount,
                taker_amount |-> trade.taker_amount,
                fee |-> trade.fee] >>

\* The log of the chain with the given transaction hash and log index.
LogAt(tx, li) == CHOOSE l \in {ChainLogs[i] : i \in 1..Len(ChainLogs)} :
                    l.transactionHash = tx /\ l.logIndex = li
\* decode_order_filled of each log of the chain, evaluated once.
DecodedLog == [k \in {<<ChainLogs[i].transactionHash, ChainLogs[i].logIndex>> :
                        i \in 1..Len(ChainLogs)} |->
                 decode_order_filled(LogAt(k[1], k[2]))]

\* parse_trade_from_log(log, timestamp, conn): [ok, error, records]; ok = FALSE
\* when decode_order_filled raises.
parse_trade_from_log(log, timestamp, rows) ==
  LET d == DecodedLog[<<log.transactionHash, log.logIndex>>]
  IN  IF ~d.ok THEN [ok |-> FALSE, error |-> d.error, records |-> <<>>]
      ELSE [ok |-> TRUE, error |-> "none",
            records |-> trade_record_of(d.trades[1], log, timestamp, rows)]

\* The for loop of run_indexer with a get_block_timestamp that has no cache:
\* w3.eth.get_block is called in every pass.
RECURSIVE run_loop_uncached(_, _, _, _, _)
run_loop_uncached(logs, i, rows, fail_at, st) ==
  IF i > Len(logs) THEN [status |-> "done", error |-> "none", i |-> i, st |-> st]
  ELSE
    LET log == logs[i]
        block_number == log.blockNumber
        timestamp == format_timestamp(BlockTimestamp(block_number))
        parsed == parse_trade_from_log(log, timestamp, rows)
    IN  IF fail_at = i
          THEN [status |-> "raised", error |-> "upstream", i |-> i, st |-> st]
        ELSE IF ~parsed.ok
          THEN [status |-> "raised", error |-> parsed.error, i |-> i, st |-> st]
        ELSE run_loop_uncached(logs, i + 1, rows, fail_at,
                               [timestamp_cache |-> st.timestamp_cache,
                                queried |-> Append(st.queried, block_number),
                                trades |-> st.trades \o parsed.records,
                                skipped |-> IF Len(parsed.records) = 0
                                              THEN st.skipped + 1 ELSE st.skipped])

\* The for loop of run_indexer from its i-th log on.  st holds the locals
\* [timestamp_cache, trades, skipped] and queried, the block numbers
\* w3.eth.get_block was asked for, in call order.  fail_at names the pass in
\* which w3.eth.get_block raises (0: the node answers every time); it can only
\* raise where get_block_timestamp misses its cache.  The result is st with
\* [status, error, i]: "done" after the last log, or "raised" in pass i.
RECURSIVE run_loop(_, _, _, _, _)
run_loop(logs, i, rows, fail_at, st) ==
  IF i > Len(logs) THEN [status |-> "done", error |-> "none", i |-> i, st |-> st]
  ELSE
    LET log == logs[i]
        block_number == log.blockNumber
        cached == block_number \in DOMAIN st.timestamp_cache
    IN  IF ~cached /\ fail_at = i
          THEN [status |-> "raised", error |-> "upstream", i |-> i, st |-> st]
        ELSE
          LET cache == IF cached THEN st.timestamp_cache
                       ELSE [b \in (DOMAIN st.timestamp_cache) \cup {block_number} |->
                               IF b = block_number THEN BlockTimestamp(block_number)
                               ELSE st.timestamp_cache[b]]
              queried == IF cached THEN st.queried ELSE Append(st.queried, block_number)
              timestamp == format_timestamp(cache[block_number])
              parsed == parse_trade_from_log(log, timestamp, rows)
          IN  IF ~parsed.ok
                THEN [status |-> "raised", error |-> parsed.error, i |-> i,
                      st |-> [st EXCEPT !.timestamp_cache = cache, !.queried = queried]]
              ELSE run_loop(logs, i + 1, rows, fail_at,
                            [timestamp_cache |-> cache,
                             queried |-> queried,
                             trades |-> st.trades \o parsed.records,
                             skipped |-> IF Len(parsed.records) = 0
                                           THEN st.skipped + 1 ELSE st.skipped])

\* timestamp_cache = {} at the start of every run_indexer call.
LoopStart ==
  [timestamp_cache |-> [b \in {} |-> 0], queried |-> <<>>, trades |-> <<>>, skipped |-> 0]

Idle == [pc |-> "idle"]
NoTxn == [open |-> FALSE]

Init ==
  /\ events = <<>>
  /\ event_seq = 0
  /\ peer = Idle
  /\ markets = <<>>
  /\ market_seq = 0
  /\ trades = <<>>
  /\ sync_state = NoSync
  /\ conn = NoTxn
  /\ run = Idle
  /\ ret = [op |-> "init", status |-> "returned"]

\* ----------------------------------------------------------------- actions
\* What a reader of the database sees: the committed trades and watermarks.
Committed == [trades |-> trades, sync_state |-> sync_state]

\* Trade dicts a caller hands directly to insert_trades: the records of two
\* fills, and a second record for the key of the first with other contents.
MarketM1 == CHOOSE m \in MarketInputs : m.status = "active"
RegistryM1 == upsert_market(<<>>, 0, MarketM1).rows
RecordOf(log) ==
  parse_trade_from_log(log, format_timestamp(BlockTimestamp(log.blockNumber)),
                       RegistryM1).records[1]
DirectTrades ==
  { RecordOf(LogBuyYes), RecordOf(LogSellNo),
    [RecordOf(LogBuyYes) EXCEPT !.block_number = 2, !.side = "SELL"] }

RECURSIVE SeqsUpTo(_, _)
SeqsUpTo(S, n) ==
  IF n = 0 THEN {<<>>}
  ELSE LET shorter == SeqsUpTo(S, n - 1)
       IN  shorter \cup {Append(q, x) : q \in {p \in shorter : Len(p) = n - 1}, x \in S}

Batches == SeqsUpTo(DirectTrades, MaxBatch)

\* The calls of run_indexer(w3, conn, from_block, to_block, sync_state_key=key).
Calls ==
  { [from_block |-> f, to_block |-> t, key |-> k] :
      f \in Blocks, t \in Blocks, k \in Keys }

\* index_single_transaction(tx_hash) is run_indexer on the block of the
\* transaction, with the default stream key.
SingleCall(tx_hash) ==
  [from_block |-> get_transaction_block(tx_hash),
   to_block |-> get_transaction_block(tx_hash), key |-> DEFAULT_KEY]

\* fetch_logs of each block range, evaluated once.
FetchedLogs == [f \in Blocks, t \in Blocks |-> fetch_logs(f, t, DefaultExchanges)]

CallLogs(c) == FetchedLogs[c.from_block, c.to_block]

\* Whether the call about to start repeats, with nothing in between, a
\* run_indexer call that returned for the same range and stream key.
Repeats(c) ==
  /\ ret.op = "run_indexer" /\ ret.status = "returned"
  /\ ret.from_block = c.from_block /\ ret.to_block = c.to_block /\ ret.key = c.key

Running == [op |-> "run_indexer", status |-> "running"]

\* The exception a call ends with.  pre is the committed database at the call.
Raised(op, error, pre) == [op |-> op, status |-> "raised", error |-> error, pre |-> pre]

\* The locals of run_indexer at the end of its for loop.  tx_hash is the
\* argument of the index_single_transaction call that made the run (the empty
\* list: none did).  pre and repeat are history kept for the properties, not
\* program state.
RunLocals(c, st) ==
  [pc |-> "insert",
   from_block |-> c.from_block, to_block |-> c.to_block, sync_state_key |-> c.key,
   tx_hash |-> <<>>,
   total_logs |-> Len(CallLogs(c)),
   timestamp_cache |-> st.timestamp_cache,
   queried |-> st.queried,
   logs |-> CallLogs(c),
   trades |-> st.trades,
   skipped |-> st.skipped,
   inserted_count |-> 0,
   pre |-> Committed,
   repeat |-> Repeats(c)]

\* A run_indexer that registers a market of its own before it indexes.
CallRunIndexer_Registers(c) ==
  /\ run.pc = "idle"
  /\ c.from_block <= c.to_block
  /\ LET r == run_loop(CallLogs(c), 1, markets, 0, LoopStart)
         u == upsert_market(markets, market_seq, CHOOSE m \in MarketInputs : TRUE)
     IN  /\ r.status = "done"
         /\ run' = RunLocals(c, r.st)
         /\ markets' = u.rows
         /\ market_seq' = u.seq
  /\ ret' = Running
  /\ UNCHANGED <<trades, sync_state, conn>>
  /\ UNCHANGED <<events, event_seq, peer>>

\* run_indexer from its call to the end of its for loop: fetch_logs returns and
\* every pass of the loop returns.  The loop writes nothing to the database.
\* Callers pass from_block <= to_block; what the node answers to an inverted
\* range is not part of this repository.
CallRunIndexer(c) ==
  /\ run.pc = "idle"
  /\ c.from_block <= c.to_block
  /\ LET r == run_loop(CallLogs(c), 1, markets, 0, LoopStart)
     IN  /\ r.status = "done"
         /\ run' = RunLocals(c, r.st)
  /\ ret' = Running
  /\ UNCHANGED <<markets, market_seq, trades, sync_state, conn>>
  /\ UNCHANGED <<events, event_seq, peer>>

\* index_single_transaction(w3, conn, tx_hash): the receipt gives the block,
\* then run_indexer(block, block) as above.
CallIndexSingleTransaction(tx_hash) ==
  /\ run.pc = "idle"
  /\ LET c == SingleCall(tx_hash)
         r == run_loop(CallLogs(c), 1, markets, 0, LoopStart)
     IN  /\ r.status = "done"
         /\ run' = [RunLocals(c, r.st) EXCEPT !.tx_hash = <<tx_hash>>]
  /\ ret' = Running
  /\ UNCHANGED <<markets, market_seq, trades, sync_state, conn>>
  /\ UNCHANGED <<events, event_seq, peer>>

\* index_single_transaction: w3.eth.get_transaction_receipt raises.
GetReceiptFails(tx_hash) ==
  /\ run.pc = "idle"
  /\ ret' = Raised("index_single_transaction", "upstream", Committed)
  /\ UNCHANGED <<markets, market_seq, trades, sync_state, conn, run>>
  /\ UNCHANGED <<events, event_seq, peer>>

\* run_indexer: w3.eth.get_logs of fetch_logs raises (node unreachable, timeout).
FetchLogsFails(c) ==
  /\ run.pc = "idle"
  /\ c.from_block <= c.to_block
  /\ ret' = Raised("run_indexer", "upstream", Committed)
  /\ UNCHANGED <<markets, market_seq, trades, sync_state, conn, run>>
  /\ UNCHANGED <<events, event_seq, peer>>

\* A run_indexer that inserts and commits each trade inside its for loop:
\* the trades of the passes before the failing one stay in the table.
GetBlockFails_InsertInLoop(c, fail_at) ==
  /\ run.pc = "idle"
  /\ c.from_block <= c.to_block
  /\ fail_at \in 1..Len(CallLogs(c))
  /\ LET r == run_loop(CallLogs(c), 1, markets, fail_at, LoopStart)
     IN  /\ r.status = "raised" /\ r.error = "upstream"
         /\ trades' = insert_loop(trades, r.st.trades, 0).rows
         /\ ret' = Raised("run_indexer", r.error, Committed)
  /\ UNCHANGED <<markets, market_seq, sync_state, conn, run>>
  /\ UNCHANGED <<events, event_seq, peer>>

\* run_indexer: w3.eth.get_block raises in pass fail_at of the for loop.
GetBlockFails(c, fail_at) ==
  /\ run.pc = "idle"
  /\ c.from_block <= c.to_block
  /\ fail_at \in 1..Len(CallLogs(c))
  /\ LET r == run_loop(CallLogs(c), 1, markets, fail_at, LoopStart)
     IN  /\ r.status = "raised" /\ r.error = "upstream"
         /\ ret' = Raised("run_indexer", r.error, Committed)
  /\ UNCHANGED <<markets, market_seq, trades, sync_state, conn, run>>
  /\ UNCHANGED <<events, event_seq, peer>>

\* run_indexer: decode_order_filled raises in a pass of the for loop; nothing
\* in parse_trade_from_log or run_indexer catches it, the call ends with it.
DecodeRaises(c) ==
  /\ run.pc = "idle"
  /\ c.from_block <= c.to_block
  /\ LET r == run_loop(CallLogs(c), 1, markets, 0, LoopStart)
     IN  /\ r.status = "raised"
         /\ ret' = Raised("run_indexer", r.error, Committed)
  /\ UNCHANGED <<markets, market_seq, trades, sync_state, conn, run>>
  /\ UNCHANGED <<events, event_seq, peer>>

\* A run_indexer that writes the watermark before it inserts: the step that
\* executes the INSERTs also stores to_block for the stream key.
RunInsertTrades_WatermarkFirst ==
  /\ run.pc = "insert"
  /\ LET r == insert_loop(trades, run.trades, 0)
     IN  /\ run' = [run EXCEPT !.pc = "commit_trades", !.inserted_count = r.count]
         /\ conn' = [open |-> TRUE, trades |-> r.rows, sync_state |-> sync_state]
  /\ sync_state' = update_sync_row(sync_state, run.sync_state_key, run.to_block)
  /\ UNCHANGED <<markets, market_seq, trades, ret>>
  /\ UNCHANGED <<events, event_seq, peer>>

\* insert_trades(conn, trades) up to its conn.commit(): the executes of the
\* for loop, inside the implicit transaction.  An empty list returns 0 at once.
RunInsertTrades ==
  /\ run.pc = "insert"
  /\ IF Len(run.trades) = 0
       THEN /\ run' = [run EXCEPT !.pc = "update", !.inserted_count = 0]
            /\ UNCHANGED conn
       ELSE LET r == insert_loop(trades, run.trades, 0)
            IN  /\ run' = [run EXCEPT !.pc = "commit_trades", !.inserted_count = r.count]
                /\ conn' = [open |-> TRUE, trades |-> r.rows, sync_state |-> sync_state]
  /\ UNCHANGED <<markets, market_seq, trades, sync_state, ret>>
  /\ UNCHANGED <<events, event_seq, peer>>

\* conn.commit() at the end of insert_trades.
RunCommitTrades ==
  /\ run.pc = "commit_trades"
  /\ trades' = conn.trades
  /\ conn' = NoTxn
  /\ run' = [run EXCEPT !.pc = "update"]
  /\ UNCHANGED <<markets, market_seq, sync_state, ret>>
  /\ UNCHANGED <<events, event_seq, peer>>

\* update_sync_state(conn, sync_state_key, to_block) up to its conn.commit().
RunUpdateSyncState ==
  /\ run.pc = "update"
  /\ conn' = [open |-> TRUE, trades |-> trades,
              sync_state |-> update_sync_row(sync_state, run.sync_state_key, run.to_block)]
  /\ run' = [run EXCEPT !.pc = "commit_sync"]
  /\ UNCHANGED <<markets, market_seq, trades, sync_state, ret>>
  /\ UNCHANGED <<events, event_seq, peer>>

\* conn.commit() of update_sync_state, then run_indexer builds and returns result.
RunCommitSyncAndReturn ==
  /\ run.pc = "commit_sync"
  /\ sync_state' = conn.sync_state
  /\ conn' = NoTxn
  /\ ret' = [op |-> "run_indexer", status |-> "returned", error |-> "none",
             from_block |-> run.from_block, to_block |-> run.to_block,
             key |-> run.sync_state_key,
             total_logs |-> run.total_logs,
             parsed_trades |-> Len(run.trades),
             inserted_trades |-> run.inserted_count,
             skipped_trades |-> run.skipped,
             sample_trades |-> Slice(run.trades, 0, 5),
             pre |-> run.pre, repeat |-> run.repeat]
  /\ run' = Idle
  /\ UNCHANGED <<markets, market_seq, trades>>
  /\ UNCHANGED <<events, event_seq, peer>>

\* The process running run_indexer is cancelled or killed between two steps:
\* the connection closes and its open transaction is rolled back.
Cancel ==
  /\ run.pc # "idle"
  /\ conn' = NoTxn
  /\ ret' = [op |-> "run_indexer", status |-> "cancelled", error |-> "cancelled",
             to_block |-> run.to_block, key |-> run.sync_state_key,
             batch |-> run.trades, pre |-> run.pre]
  /\ run' = Idle
  /\ UNCHANGED <<markets, market_seq, trades, sync_state>>
  /\ UNCHANGED <<events, event_seq, peer>>

\* insert_trades(conn, batch) called directly.
CallInsertTrades(batch) ==
  /\ run.pc = "idle"
  /\ LET r == insert_loop(trades, batch, 0)
     IN  /\ trades' = r.rows
         /\ ret' = [op |-> "insert_trades", status |-> "returned", error |-> "none",
                    batch |-> batch, count |-> r.count, pre |-> Committed]
  /\ UNCHANGED <<markets, market_seq, sync_state, conn, run>>
  /\ UNCHANGED <<events, event_seq, peer>>

\* update_sync_state(conn, key, last_block) called directly.
CallUpdateSyncState(key, last_block) ==
  /\ run.pc = "idle"
  /\ sync_state' = update_sync_row(sync_state, key, last_block)
  /\ ret' = [op |-> "update_sync_state", status |-> "returned", error |-> "none",
             key |-> key, last_block |-> last_block]
  /\ UNCHANGED <<markets, market_seq, trades, conn, run>>
  /\ UNCHANGED <<events, event_seq, peer>>

\* upsert_market(conn, m)
CallUpsertMarket(m) ==
  /\ run.pc = "idle"
  /\ market_seq < MaxMarketSeq
  /\ LET r == upsert_market(markets, market_seq, m)
     IN  /\ markets' = r.rows
         /\ market_seq' = r.seq
         /\ ret' = [op |-> "upsert_market", status |-> IF r.ok THEN "returned" ELSE "raised",
                    error |-> r.error, id |-> r.id]
  /\ UNCHANGED <<trades, sync_state, conn, run>>
  /\ UNCHANGED <<events, event_seq, peer>>

\* stage1 decode_transaction(w3, tx_hash)
CallDecodeTransaction(tx_hash) ==
  /\ run.pc = "idle"
  /\ LET r == decode_transaction(tx_hash)
     IN  ret' = [op |-> "decode_transaction", status |-> IF r.ok THEN "returned" ELSE "raised",
                 error |-> r.error, tx_hash |-> tx_hash, trades |-> r.trades]
  /\ UNCHANGED <<markets, market_seq, trades, sync_state, conn, run>>
  /\ UNCHANGED <<events, event_seq, peer>>

\* The indexing pipeline: indexer calls, their failures and cancellation,
\* with the registry and the watermark also written from outside.
Next ==
  \/ \E c \in Calls : CallRunIndexer(c)
  \/ \E tx \in TxHashes : CallIndexSingleTransaction(tx)
  \/ \E tx \in TxHashes : GetReceiptFails(tx)
  \/ \E c \in Calls : FetchLogsFails(c)
  \/ \E c \in Calls : \E j \in 1..Len(CallLogs(c)) : GetBlockFails(c, j)
  \/ \E c \in Calls : DecodeRaises(c)
  \/ RunInsertTrades
  \/ RunCommitTrades
  \/ RunUpdateSyncState
  \/ RunCommitSyncAndReturn
  \/ Cancel
  \/ \E k \in Keys, b \in Blocks : CallUpdateSyncState(k, b)
  \/ \E m \in MarketInputs : CallUpsertMarket(m)
  \/ \E tx \in TxHashes : CallDecodeTransaction(tx)

Spec == Init /\ [][Next]_vars

\* The trades table under direct insert_trades calls mixed with indexer runs.
NextStore ==
  \/ \E b \in Batches : CallInsertTrades(b)
  \/ \E c \in Calls : CallRunIndexer(c)
  \/ RunInsertTrades
  \/ RunCommitTrades
  \/ RunUpdateSyncState
  \/ RunCommitSyncAndReturn
  \/ \E m \in MarketInputs : CallUpsertMarket(m)

SpecStore == Init /\ [][NextStore]_vars

\* ------------------------------------------------------------ the ledger
\* INSERT INTO events ... ON CONFLICT(slug) DO UPDATE ...; SELECT id; commit.
upsert_event(rows, seq, e) ==
  LET known == {i \in 1..Len(rows) : rows[i].slug = e.slug}
  IN  IF known # {}
        THEN LET i == CHOOSE j \in known : TRUE
             IN  [rows |-> [rows EXCEPT ![i] = [id |-> rows[i].id, slug |-> e.slug,
                                                title |-> e.title]],
                  seq |-> seq + 1, id |-> rows[i].id]
      ELSE [rows |-> Append(rows, [id |-> seq + 1, slug |-> e.slug, title |-> e.title]),
            seq |-> seq + 1, id |-> seq + 1]

\* Event descriptions handed to upsert_event.
EventInputs ==
  { [slug |-> "e1", title |-> "first"], [slug |-> "e1", title |-> "renamed"] }

\* upsert_event(conn, e)
CallUpsertEvent(e) ==
  /\ run.pc = "idle"
  /\ event_seq < MaxEventSeq
  /\ LET r == upsert_event(events, event_seq, e)
     IN  /\ events' = r.rows
         /\ event_seq' = r.seq
         /\ ret' = [op |-> "upsert_event", status |-> "returned", error |-> "none",
                    id |-> r.id]
  /\ UNCHANGED <<markets, market_seq, trades, sync_state, conn, run, peer>>

\* ------------------------------------------------------------ the queries
\* A SELECT without ORDER BY: the rows in rowid order.
RECURSIVE order_by_rowid(_, _)
order_by_rowid(rows, ids) ==
  IF ids = {} THEN <<>>
  ELSE LET first == CHOOSE i \in ids : \A j \in ids : i <= j
       IN  <<first>> \o order_by_rowid(rows, ids \ {first})

\* ORDER BY block_number ASC, log_index ASC over the rows with the given
\* rowids; rows equal in both columns come out in rowid order.
RECURSIVE order_by_block_log(_, _)
order_by_block_log(rows, ids) ==
  IF ids = {} THEN <<>>
  ELSE LET first == CHOOSE i \in ids : \A j \in ids :
                      \/ rows[i].block_number < rows[j].block_number
                      \/ /\ rows[i].block_number = rows[j].block_number
                         /\ rows[i].log_index < rows[j].log_index
                      \/ /\ rows[i].block_number = rows[j].block_number
                         /\ rows[i].log_index = rows[j].log_index
                         /\ i <= j
       IN  <<first>> \o order_by_block_log(rows, ids \ {first})

\* LIMIT ? OFFSET ? of SQLite over an ordered list: a negative OFFSET is 0 and a
\* negative LIMIT is no limit.
limit_offset(seq, limit, offset) ==
  LET skip == IF offset < 0 THEN 0 ELSE offset
      rest == SubSeq(seq, skip + 1, Len(seq))
  IN  IF limit < 0 THEN rest ELSE SubSeq(rest, 1, Min(limit, Len(rest)))

\* The dict built from one result row: the id column under 'trade_id'.
trade_dict(row) ==
  [k \in ((DOMAIN row) \ {"id"}) \cup {"trade_id"} |->
     IF k = "trade_id" THEN row.id ELSE row[k]]

\* The block-range conditions appended to the WHERE clause; an argument that
\* is None (the empty list) adds none.
in_block_range(row, from_block, to_block) ==
  /\ (Len(from_block) = 1 => row.block_number >= from_block[1])
  /\ (Len(to_block) = 1 => row.block_number <= to_block[1])

\* fetch_trades_for_market(conn, market_id, limit, cursor, from_block, to_block)
fetch_trades_for_market(rows, market_id, limit, cursor, from_block, to_block) ==
  LET ids == {i \in 1..Len(rows) :
                /\ rows[i].market_id = market_id
                /\ in_block_range(rows[i], from_block, to_block)}
      page == limit_offset(order_by_block_log(rows, ids), limit, cursor)
  IN  [n \in 1..Len(page) |-> trade_dict(rows[page[n]])]

\* fetch_trades_for_token(conn, token_id, limit, cursor, from_block, to_block)
fetch_trades_for_token(rows, token_id, limit, cursor, from_block, to_block) ==
  LET ids == {i \in 1..Len(rows) :
                /\ rows[i].token_id = token_id
                /\ in_block_range(rows[i], from_block, to_block)}
      page == limit_offset(order_by_block_log(rows, ids), limit, cursor)
  IN  [n \in 1..Len(page) |-> trade_dict(rows[page[n]])]

\* The argument lists of the queries.  The selector is a market id or a token
\* id; fromBlock / toBlock are None (the empty list) or a block number; limit
\* and cursor are as the API admits them (limit >= 1, cursor >= 0) and limit
\* 0, which a direct caller can pass.
Queries ==
  LET Selectors == {[by |-> "market", market_id |-> id] : id \in 1..2} \cup
                   {[by |-> "token", token_id |-> t] : t \in {hex064(1), hex064(2)}}
      OptBlocks == {<<>>} \cup {<<b>> : b \in 1..MaxQueryBlock}
  IN  { [sel |-> s, limit |-> l, cursor |-> c, from_block |-> f, to_block |-> t] :
          s \in Selectors, l \in 0..MaxLimit, c \in 0..MaxCursor,
          f \in OptBlocks, t \in OptBlocks }

fetch_trades(rows, q) ==
  IF q.sel.by = "market"
  THEN fetch_trades_for_market(rows, q.sel.market_id, q.limit, q.cursor, q.from_block, q.to_block)
  ELSE fetch_trades_for_token(rows, q.sel.token_id, q.limit, q.cursor, q.from_block, q.to_block)

\* A query of the trades of a market or of a token.
CallFetchTrades(q) ==
  /\ run.pc = "idle"
  /\ ret' = [op |-> "fetch_trades", status |-> "returned", error |-> "none",
             query |-> q, trades |-> fetch_trades(trades, q)]
  /\ UNCHANGED <<events, event_seq, markets, market_seq, trades, sync_state, conn, run, peer>>

\* The ledger under every operation that writes to or reads the database,
\* each running to its end.  insert_trades works through its list record by
\* record; the ledger is fed the lists of at most one record.  The queries are
\* those of the first page of one market and of one token.
NextLedger ==
  \/ \E b \in {p \in Batches : Len(p) <= 1} : CallInsertTrades(b)
  \/ \E c \in Calls : CallRunIndexer(c)
  \/ RunInsertTrades
  \/ RunCommitTrades
  \/ RunUpdateSyncState
  \/ RunCommitSyncAndReturn
  \/ \E k \in Keys, b \in Blocks : CallUpdateSyncState(k, b)
  \/ \E m \in MarketInputs : CallUpsertMarket(m)
  \/ \E e \in EventInputs : CallUpsertEvent(e)
  \/ \E q \in {x \in Queries : /\ x.limit = 1 /\ x.cursor = 0
                                /\ x.from_block = <<>> /\ x.to_block = <<>>
                                /\ x.sel \in {[by |-> "market", market_id |-> 1],
                                               [by |-> "token", token_id |-> hex064(1)]}} :
       CallFetchTrades(q)

SpecLedger == Init /\ [][NextLedger]_vars

\* ------------------------------------------------- exchange address lists
\* The exchange_addresses a caller passes to run_indexer: None (the default
\* pair) or a list of its own.
ExchangeLists ==
  { DefaultExchanges, {OTHER_CONTRACT}, {CTF_EXCHANGE, OTHER_CONTRACT} }

\* run_indexer(w3, conn, from_block, to_block, exchange_addresses, key) from
\* its call to the end of its for loop.
CallRunIndexerWith(c, exchange_addresses) ==
  /\ run.pc = "idle"
  /\ c.from_block <= c.to_block
  /\ LET logs == fetch_logs(c.from_block, c.to_block, exchange_addresses)
         r == run_loop(logs, 1, markets, 0, LoopStart)
     IN  /\ r.status = "done"
         /\ run' = [RunLocals(c, r.st) EXCEPT !.total_logs = Len(logs), !.logs = logs]
  /\ ret' = Running
  /\ UNCHANGED <<events, event_seq, markets, market_seq, trades, sync_state, conn, peer>>

\* The indexer called with exchange address lists, and the stage1 decoder.
NextExchange ==
  \/ \E c \in Calls, a \in ExchangeLists : CallRunIndexerWith(c, a)
  \/ RunInsertTrades
  \/ RunCommitTrades
  \/ RunUpdateSyncState
  \/ RunCommitSyncAndReturn
  \/ \E m \in MarketInputs : CallUpsertMarket(m)
  \/ \E tx \in TxHashes : CallDecodeTransaction(tx)

SpecExchange == Init /\ [][NextExchange]_vars

\* ------------------------------------------------- the decoders on data slots
\* The data slots of a fill: <<makerAssetId, takerAssetId, makerAmountFilled,
\* takerAmountFilled, fee>>.  Amounts are the small ones, the pair of the
\* spec's scenario and its mirror, and two quotients half a unit of the sixth
\* decimal away from the next price.
AmountPairs ==
  ((0..MaxAmount) \X (0..MaxAmount)) \cup
  { <<1000000, 2000000>>, <<2000000, 1000000>>, <<1, 2000000>>, <<3, 2000000>> }

SlotInputs ==
  { <<ma, ta, p[1], p[2], 0>> : ma \in 0..MaxAsset, ta \in 0..MaxAsset, p \in AmountPairs }

\* The OrderFilled log of the exchange that carries the given data slots.
SlotLog(slots) == MkLog(CTF_EXCHANGE, FillTopics(TAKER), Words(slots), "0xt9", 0, 1)

\* A log with one of the slot values has arrived and is not decoded yet.
InitDecode ==
  /\ events = <<>> /\ event_seq = 0 /\ markets = <<>> /\ market_seq = 0
  /\ trades = <<>> /\ sync_state = NoSync /\ conn = NoTxn /\ run = Idle /\ peer = Idle
  /\ \E s \in SlotInputs : ret = [op |-> "log", status |-> "returned", slots |-> s]

\* decode_order_filled(log) of stage2 and parse_order_filled_log(log, exchange)
\* of stage1 on the log.
CallDecodeOrderFilled ==
  /\ ret.op = "log"
  /\ ret' = [op |-> "decode_order_filled", status |-> "returned", slots |-> ret.slots,
             stage2 |-> decode_order_filled(SlotLog(ret.slots)),
             stage1 |-> parse_order_filled_log(SlotLog(ret.slots), CTF_EXCHANGE)]
  /\ UNCHANGED <<events, event_seq, markets, market_seq, trades, sync_state, conn, run, peer>>

SpecDecode == InitDecode /\ [][CallDecodeOrderFilled]_vars

\* ------------------------------------------------------------ the registry
\* The token id 0x00..0A: the number 10 with its hex letter in capitals, as
\* metadata that is already hex can spell it (digits 20..25 are A..F).
TOKEN_A_UPPER == [zeros |-> HexWidth - 1, digits |-> <<20>>]

\* Market descriptions handed to upsert_market: a market, the same market
\* deactivated, a second market whose YES token has a capital hex letter, and
\* a market of another condition under the slug of the first.
RegistryInputs ==
  { [slug |-> "m1", condition_id |-> "0xc1", yes_token_id |-> hex064(1),
     no_token_id |-> hex064(2), status |-> "active"],
    [slug |-> "m1", condition_id |-> "0xc1", yes_token_id |-> hex064(1),
     no_token_id |-> hex064(2), status |-> "inactive"],
    [slug |-> "m2", condition_id |-> "0xc2", yes_token_id |-> TOKEN_A_UPPER,
     no_token_id |-> hex064(11), status |-> "active"],
    [slug |-> "m1", condition_id |-> "0xc3", yes_token_id |-> hex064(3),
     no_token_id |-> hex064(4), status |-> "active"] }

\* Token ids looked up: as the decoders print them (lowercase), and the
\* capital spelling of 10.
LookupTokens == {hex064(1), hex064(2), hex064(10), hex064(11), hex064(9), TOKEN_A_UPPER}

\* upsert_market(conn, m) on the registry.  market and pre (the table at the
\* call) are history kept for the properties.
CallUpsertMarketRegistry(m) ==
  /\ run.pc = "idle"
  /\ market_seq < MaxRegistrySeq
  /\ LET r == upsert_market(markets, market_seq, m)
     IN  /\ markets' = r.rows
         /\ market_seq' = r.seq
         /\ ret' = [op |-> "upsert_market", status |-> IF r.ok THEN "returned" ELSE "raised",
                    error |-> r.error, id |-> r.id, market |-> m, pre |-> markets]
  /\ UNCHANGED <<events, event_seq, trades, sync_state, conn, run, peer>>

\* fetch_market_by_token_id(conn, token_id)
CallFetchMarketByTokenId(token_id) ==
  /\ run.pc = "idle"
  /\ ret' = [op |-> "fetch_market_by_token_id", status |-> "returned", error |-> "none",
             token_id |-> token_id, market |-> fetch_market_by_token_id(markets, token_id)]
  /\ UNCHANGED <<events, event_seq, markets, market_seq, trades, sync_state, conn, run, peer>>

NextRegistry ==
  \/ \E m \in RegistryInputs : CallUpsertMarketRegistry(m)
  \/ \E t \in LookupTokens : CallFetchMarketByTokenId(t)

SpecRegistry == Init /\ [][NextRegistry]_vars

\* ------------------------------------------------------ market metadata
\* One entry of clobTokenIds: an int, a str of decimal digits, or a str
\* "0x" + hex digits (the module's hex string, any letter case and padding).
\* The entries that stand for the number n: the int, the decimal string, and
\* hex strings in lowercase and in capitals, padded to 64 digits or not.
\* str.isdigit() holds of the decimal strings only.
TokenEntries(n) ==
  LET lower == IF n = 0 THEN <<>> ELSE Digits(n, 16)
      upper == [i \in 1..Len(lower) |-> IF lower[i] >= 10 THEN lower[i] + 10 ELSE lower[i]]
  IN  { [kind |-> "int", n |-> n],
        [kind |-> "dec", digits |-> str_int(n)],
        [kind |-> "hex", zeros |-> HexWidth - Len(lower), digits |-> lower],
        [kind |-> "hex", zeros |-> 0, digits |-> lower],
        [kind |-> "hex", zeros |-> HexWidth - Len(upper), digits |-> upper],
        [kind |-> "hex", zeros |-> 1, digits |-> upper] }

\* The token id a formatter leaves for one entry: int(token_id) of a decimal
\* string and an int are printed with f"0x{n:064x}", any other str is kept.
\* The decimal string of a position id prints as the lowercase hash string.
format_token_id(e) ==
  IF e.kind = "dec"
    THEN IF "position" \in DOMAIN e THEN [keccak |-> e.position, upper |-> FALSE]
         ELSE hex064(DigitsValue(e.digits))
  ELSE IF e.kind = "int" THEN hex064(e.n)
  ELSE [f \in (DOMAIN e) \ {"kind"} |-> e[f]]

\* Market descriptions as the Gamma API returns them: conditionId is a list
\* (empty: the key is absent), clobTokenIds the list json.loads gives.
GammaMarkets ==
  { [slug |-> s, conditionId |-> c, clobTokenIds |-> <<y, n>>, active |-> TRUE] :
      s \in {"m1"}, c \in {<<>>, <<"0xc1">>},
      y \in TokenEntries(1) \cup TokenEntries(MaxTokenValue),
      n \in TokenEntries(1) \cup TokenEntries(MaxTokenValue) }

\* stage2 parse_market_from_gamma(market_data)
parse_market_from_gamma(market_data) ==
  LET clob_token_ids == market_data.clobTokenIds
      two == Len(clob_token_ids) >= 2
  IN  [slug |-> market_data.slug,
       condition_id |-> IF Len(market_data.conditionId) = 1
                          THEN market_data.conditionId[1] ELSE "",
       yes_token_id |-> IF two THEN <<format_token_id(clob_token_ids[1])>> ELSE <<>>,
       no_token_id |-> IF two THEN <<format_token_id(clob_token_ids[2])>> ELSE <<>>,
       status |-> IF market_data.active THEN "active" ELSE "inactive"]

\* stage1 extract_market_params(market_data): yes_token_id and no_token_id
\* are lists (empty: the key is not set).
extract_market_params(market_data) ==
  LET formatted_token_ids ==
        [i \in 1..Len(market_data.clobTokenIds) |-> format_token_id(market_data.clobTokenIds[i])]
      two == Len(formatted_token_ids) >= 2
  IN  [slug |-> market_data.slug,
       condition_id |-> IF Len(market_data.conditionId) = 1
                          THEN market_data.conditionId[1] ELSE "",
       clob_token_ids |-> formatted_token_ids,
       yes_token_id |-> IF two THEN <<formatted_token_ids[1]>> ELSE <<>>,
       no_token_id |-> IF two THEN <<formatted_token_ids[2]>> ELSE <<>>]

\* A market description has been fetched and is not parsed yet.
InitMetadata ==
  /\ events = <<>> /\ event_seq = 0 /\ markets = <<>> /\ market_seq = 0
  /\ trades = <<>> /\ sync_state = NoSync /\ conn = NoTxn /\ run = Idle /\ peer = Idle
  /\ \E d \in GammaMarkets : ret = [op |-> "fetch_market", status |-> "returned", data |-> d]

CallParseMarketFromGamma ==
  /\ ret.op = "fetch_market"
  /\ ret' = [op |-> "parse_market_from_gamma", status |-> "returned", data |-> ret.data,
             market |-> parse_market_from_gamma(ret.data)]
  /\ UNCHANGED <<events, event_seq, markets, market_seq, trades, sync_state, conn, run, peer>>

CallExtractMarketParams ==
  /\ ret.op = "fetch_market"
  /\ ret' = [op |-> "extract_market_params", status |-> "returned", data |-> ret.data,
             market |-> extract_market_params(ret.data)]
  /\ UNCHANGED <<events, event_seq, markets, market_seq, trades, sync_state, conn, run, peer>>

NextMetadata ==
  \/ CallParseMarketFromGamma
  \/ CallExtractMarketParams

SpecMetadata == InitMetadata /\ [][NextMetadata]_vars

\* ----------------------------------------------------- position derivation
\* Web3.keccak(packed).hex(): the hash is kept as the term of what was
\* hashed, so that two hashes are equal exactly when their inputs are; the
\* printed string is lowercase.  A hash string is [keccak, upper].
keccak_hex(packed) == [keccak |-> packed, upper |-> FALSE]

\* bytes.fromhex with the letter case of the digits kept in the bytes.
fromhex_cased(s, width) ==
  IF "keccak" \in DOMAIN s THEN [hash |-> s.keccak, upper |-> s.upper]
  ELSE [len |-> IF s.zeros + Len(s.digits) > width THEN s.zeros + Len(s.digits) ELSE width,
        digits |-> s.digits]

\* bytes.fromhex(s[2:].zfill(width)) of a hex string: a digit stands for the
\* same nibble in either letter case and zfill pads on the left up to width,
\* so the bytes are the length and the lowercase digits after the leading
\* zeros.  The bytes of a hash string are its hash, whatever the letter case.
fromhex(s, width) ==
  IF "keccak" \in DOMAIN s THEN [hash |-> s.keccak]
  ELSE [len |-> IF s.zeros + Len(s.digits) > width THEN s.zeros + Len(s.digits) ELSE width,
        digits |-> lower_hex(s).digits]

\* The hex string an id of a market description ("0xc1", ...) is.
hexstr(s) ==
  [zeros |-> 0,
   digits |-> IF s = "0xc1" THEN <<12, 1>> ELSE IF s = "0xc2" THEN <<12, 2>> ELSE <<12, 3>>]

\* str.lower() on a token id string of either kind.
lower_token(s) == IF "keccak" \in DOMAIN s THEN [s EXCEPT !.upper = FALSE] ELSE lower_hex(s)

ZERO_COLLECTION == [zeros |-> HexWidth, digits |-> <<>>]
USDC_ADDRESS == [hex |-> "2791bca1f2de4661ed88a30c99a7a9449aa84174", cs |-> TRUE]
UMA_ORACLE == [hex |-> "157ce2d672854c848c9b79c49a8cc6cc89176a49", cs |-> TRUE]

\* collectionId = keccak256(parentCollectionId, conditionId, indexSet)
get_collection_id(parent_collection_id, condition_id, index_set) ==
  keccak_hex([parent |-> fromhex(parent_collection_id, HexWidth),
              condition |-> fromhex(condition_id, HexWidth),
              index_set |-> index_set])

\* positionId = keccak256(collateralToken, collectionId); the 20 bytes of
\* the address are the same in checksum and in lowercase spelling.
get_position_id(collateral_token, collection_id) ==
  keccak_hex([collateral |-> collateral_token.hex,
              collection |-> fromhex(collection_id, HexWidth)])

\* conditionId = keccak256(abi.encode(oracle, questionId, outcomeSlotCount))
get_condition_id(oracle, question_id, outcome_slot_count) ==
  keccak_hex([oracle |-> to_checksum_address(oracle).hex,
              question |-> fromhex(question_id, HexWidth),
              outcome_slot_count |-> outcome_slot_count])

\* derive_binary_positions(oracle, question_id, collateral_token, condition_id);
\* condition_id is a list (empty: None, the id is computed first).
derive_binary_positions(oracle, question_id, collateral_token, condition_id) ==
  LET cid == IF Len(condition_id) = 0 THEN get_condition_id(oracle, question_id, 2)
             ELSE condition_id[1]
      collection_yes == get_collection_id(ZERO_COLLECTION, cid, 1)
      collection_no == get_collection_id(ZERO_COLLECTION, cid, 2)
  IN  [position_yes |-> get_position_id(collateral_token, collection_yes),
       position_no |-> get_position_id(collateral_token, collection_no),
       collection_yes |-> collection_yes,
       collection_no |-> collection_no]

\* The spellings in which metadata can carry a position id: its decimal
\* string, its lowercase hex string, its hex string in capitals.
PositionEntries(p) ==
  { [kind |-> "dec", position |-> p.keccak],
    [kind |-> "hex", keccak |-> p.keccak, upper |-> FALSE],
    [kind |-> "hex", keccak |-> p.keccak, upper |-> TRUE] }

\* Market descriptions whose token ids are the derived positions of their
\* condition, in either order and spelling, or other ids.
DerivedMarkets ==
  LET positions == derive_binary_positions(UMA_ORACLE, hexstr("0xc1"), USDC_ADDRESS, <<hexstr("0xc1")>>)
      entries == PositionEntries(positions.position_yes)
                   \cup PositionEntries(positions.position_no) \cup TokenEntries(1)
  IN  { [slug |-> "m1", conditionId |-> c, clobTokenIds |-> <<y, n>>, active |-> TRUE] :
          c \in {<<>>, <<"0xc1">>}, y \in entries, n \in entries }

\* decode_market_from_gamma without the exchanged-order half of its match
\* test.
decode_market_from_gamma_ordered(market_data) ==
  LET params == extract_market_params(market_data)
      condition_id == params.condition_id
  IN  IF condition_id = "" THEN [ok |-> FALSE, error |-> "ValueError"]
      ELSE
        LET positions == derive_binary_positions(UMA_ORACLE, hexstr(condition_id), USDC_ADDRESS,
                                                 <<hexstr(condition_id)>>)
            gamma_token_ids == params.clob_token_ids
            matches == /\ Len(gamma_token_ids) >= 2
                       /\ positions.position_yes = lower_token(gamma_token_ids[1])
                       /\ positions.position_no = lower_token(gamma_token_ids[2])
            use_gamma == Len(gamma_token_ids) >= 2 /\ ~matches
        IN  [ok |-> TRUE, error |-> "none",
             condition_id |-> condition_id,
             yes_token_id |-> IF use_gamma THEN gamma_token_ids[1] ELSE positions.position_yes,
             no_token_id |-> IF use_gamma THEN gamma_token_ids[2] ELSE positions.position_no,
             gamma |-> params]

\* stage1 decode_market_from_gamma on the fetched market description.  The
\* description carries no question id, so the condition id stands in for it.
decode_market_from_gamma(market_data) ==
  LET params == extract_market_params(market_data)
      condition_id == params.condition_id
  IN  IF condition_id = "" THEN [ok |-> FALSE, error |-> "ValueError"]
      ELSE
        LET positions == derive_binary_positions(UMA_ORACLE, hexstr(condition_id), USDC_ADDRESS,
                                                 <<hexstr(condition_id)>>)
            gamma_token_ids == params.clob_token_ids
            calc_yes == lower_token(positions.position_yes)
            calc_no == lower_token(positions.position_no)
            matches == /\ Len(gamma_token_ids) >= 2
                       /\ LET gamma_yes == lower_token(gamma_token_ids[1])
                              gamma_no == lower_token(gamma_token_ids[2])
                          IN  \/ (calc_yes = gamma_yes /\ calc_no = gamma_no)
                              \/ (calc_yes = gamma_no /\ calc_no = gamma_yes)
            use_gamma == Len(gamma_token_ids) >= 2 /\ ~matches
        IN  [ok |-> TRUE, error |-> "none",
             condition_id |-> condition_id,
             yes_token_id |-> IF use_gamma THEN gamma_token_ids[1] ELSE positions.position_yes,
             no_token_id |-> IF use_gamma THEN gamma_token_ids[2] ELSE positions.position_no,
             gamma |-> params]

\* A market description has been fetched by its slug and is not decoded yet.
InitDerive ==
  /\ events = <<>> /\ event_seq = 0 /\ markets = <<>> /\ market_seq = 0
  /\ trades = <<>> /\ sync_state = NoSync /\ conn = NoTxn /\ run = Idle /\ peer = Idle
  /\ \E d \in DerivedMarkets : ret = [op |-> "fetch_market_by_slug", status |-> "returned", data |-> d]

CallDecodeMarketFromGamma ==
  /\ ret.op = "fetch_market_by_slug"
  /\ LET r == decode_market_from_gamma(ret.data)
     IN  ret' = [op |-> "decode_market_from_gamma",
                 status |-> IF r.ok THEN "returned" ELSE "raised",
                 error |-> r.error, data |-> ret.data, params |-> r]
  /\ UNCHANGED <<events, event_seq, markets, market_seq, trades, sync_state, conn, run, peer>>

SpecDerive == InitDerive /\ [][CallDecodeMarketFromGamma]_vars

\* ------------------------------------------------------- market discovery
\* The row upsert_market receives for a parsed market description; a token id
\* that parse_market_from_gamma left empty is the empty string.
market_row(market_info) ==
  LET empty == [zeros |-> 0, digits |-> <<>>, empty |-> TRUE]
  IN  [slug |-> market_info.slug, condition_id |-> market_info.condition_id,
       yes_token_id |-> IF Len(market_info.yes_token_id) = 1
                          THEN market_info.yes_token_id[1] ELSE empty,
       no_token_id |-> IF Len(market_info.no_token_id) = 1
                         THEN market_info.no_token_id[1] ELSE empty,
       status |-> market_info.status]

\* The for loop of discover_markets over the markets of the event: each is
\* parsed and upserted (every upsert commits); an exception of upsert_market
\* leaves the loop and the call.  [ok, error, rows, seq, discovered].
RECURSIVE discover_loop(_, _, _, _)
discover_loop(market_list, rows, seq, discovered) ==
  IF Len(market_list) = 0
  THEN [ok |-> TRUE, error |-> "none", rows |-> rows, seq |-> seq, discovered |-> discovered]
  ELSE LET market_info == parse_market_from_gamma(Head(market_list))
           r == upsert_market(rows, seq, market_row(market_info))
       IN  IF ~r.ok
             THEN [ok |-> FALSE, error |-> r.error, rows |-> rows, seq |-> seq,
                   discovered |-> discovered]
           ELSE discover_loop(Tail(market_list), r.rows, r.seq, discovered + 1)

\* Market descriptions of an event as Gamma returns them: two with a
\* conditionId, two without.
EventMarkets ==
  { [slug |-> "a", conditionId |-> <<"0xc1">>,
     clobTokenIds |-> <<[kind |-> "int", n |-> 1], [kind |-> "int", n |-> 2]>>, active |-> TRUE],
    [slug |-> "b", conditionId |-> <<>>,
     clobTokenIds |-> <<[kind |-> "int", n |-> 3], [kind |-> "int", n |-> 4]>>, active |-> TRUE],
    [slug |-> "c", conditionId |-> <<"0xc2">>,
     clobTokenIds |-> <<[kind |-> "int", n |-> 5], [kind |-> "int", n |-> 6]>>, active |-> TRUE],
    [slug |-> "d", conditionId |-> <<>>,
     clobTokenIds |-> <<[kind |-> "int", n |-> 7], [kind |-> "int", n |-> 8]>>, active |-> TRUE] }

NoRepeat(q) == \A i, j \in 1..Len(q) : q[i] = q[j] => i = j

\* The events fetch_event_from_gamma returns.
GammaEvents ==
  { [slug |-> "e1", title |-> "first", markets |-> q] :
      q \in {p \in SeqsUpTo(EventMarkets, MaxEventMarkets) : NoRepeat(p)} }

\* discover_markets(conn, event_slug) with the event Gamma returns for the slug.
CallDiscoverMarkets(event_data) ==
  /\ run.pc = "idle"
  /\ event_seq < MaxDiscoverCalls
  /\ LET e == upsert_event(events, event_seq,
                           [slug |-> event_data.slug, title |-> event_data.title])
         r == discover_loop(event_data.markets, markets, market_seq, 0)
     IN  /\ events' = e.rows
         /\ event_seq' = e.seq
         /\ markets' = r.rows
         /\ market_seq' = r.seq
         /\ ret' = [op |-> "discover_markets",
                    status |-> IF r.ok THEN "returned" ELSE "raised", error |-> r.error,
                    event |-> event_data, event_id |-> e.id, total_markets |-> r.discovered]
  /\ UNCHANGED <<trades, sync_state, conn, run, peer>>

NextDiscover == \E e \in GammaEvents : CallDiscoverMarkets(e)

SpecDiscover == Init /\ [][NextDiscover]_vars

\* Store contents for the queries: trades of two markets and two tokens, in
\* blocks 1 and 2, inserted in any order.
QueryTrades ==
  { [RecordOf(LogBuyYes) EXCEPT !.market_id = 1, !.token_id = hex064(1),
       !.block_number = 2, !.log_index = 0, !.tx_hash = "0xt2"],
    [RecordOf(LogBuyYes) EXCEPT !.market_id = 1, !.token_id = hex064(1),
       !.block_number = 1, !.log_index = 1, !.tx_hash = "0xt1"],
    [RecordOf(LogBuyYes) EXCEPT !.market_id = 1, !.token_id = hex064(2),
       !.block_number = 1, !.log_index = 0, !.tx_hash = "0xt1"],
    [RecordOf(LogBuyYes) EXCEPT !.market_id = 2, !.token_id = hex064(1),
       !.block_number = 1, !.log_index = 0, !.tx_hash = "0xt3"] }

QueryTables ==
  { insert_loop(<<>>, b, 0).rows : b \in {p \in SeqsUpTo(QueryTrades, MaxStoredTrades) : NoRepeat(p)} }

\* The database holds one of the tables and nothing else.
InitQuery ==
  /\ events = <<>> /\ event_seq = 0 /\ markets = <<>> /\ market_seq = 0
  /\ sync_state = NoSync /\ conn = NoTxn /\ run = Idle /\ peer = Idle
  /\ trades \in QueryTables
  /\ ret = [op |-> "init", status |-> "returned"]

\* One query of the table; a query writes nothing, so a second one would be
\* asked of the same table.
NextQuery == \E q \in Queries : ret.op = "init" /\ CallFetchTrades(q)

SpecQuery == InitQuery /\ [][NextQuery]_vars

\* ------------------------------------------------------ two indexer processes
\* A second process runs run_indexer on its own connection to the same
\* database file.  SQLite lets one connection write at a time: the second
\* process's transactions wait while the first connection has one open.
\* overlap (the first process was inside run_indexer when this run started)
\* and earlier (the to_block of a run of the first process that returned
\* on the same key before this one) are history kept for the properties.
PeerCallRunIndexer(c) ==
  /\ peer.pc = "idle"
  /\ c.from_block <= c.to_block
  /\ LET r == run_loop(CallLogs(c), 1, markets, 0, LoopStart)
     IN  /\ r.status = "done"
         /\ peer' = [pc |-> "insert", to_block |-> c.to_block, sync_state_key |-> c.key,
                     trades |-> r.st.trades, overlap |-> run.pc # "idle"]
  /\ UNCHANGED <<events, event_seq, markets, market_seq, trades, sync_state, conn, run, ret>>

\* insert_trades(conn, trades) of the second process, through its commit.
PeerInsertTrades ==
  /\ peer.pc = "insert"
  /\ ~conn.open
  /\ trades' = insert_loop(trades, peer.trades, 0).rows
  /\ peer' = [peer EXCEPT !.pc = "update"]
  /\ UNCHANGED <<events, event_seq, markets, market_seq, sync_state, conn, run, ret>>

\* update_sync_state(conn, sync_state_key, to_block) of the second process,
\* through its commit, and the return of its run_indexer.
PeerUpdateSyncState ==
  /\ peer.pc = "update"
  /\ ~conn.open
  /\ sync_state' = update_sync_row(sync_state, peer.sync_state_key, peer.to_block)
  /\ peer' = [pc |-> "idle", to_block |-> peer.to_block,
              sync_state_key |-> peer.sync_state_key, overlap |-> peer.overlap,
              earlier |-> IF /\ ret.op = "run_indexer" /\ ret.status = "returned"
                             /\ ret.key = peer.sync_state_key
                          THEN <<ret.to_block>> ELSE <<>>]
  /\ UNCHANGED <<events, event_seq, markets, market_seq, trades, conn, run, ret>>

\* Both processes index ranges that start at the first block.
ConcurrentCalls == {c \in Calls : c.from_block = 1}

NextConcurrent ==
  \/ \E c \in ConcurrentCalls : CallRunIndexer(c)
  \/ RunInsertTrades
  \/ RunCommitTrades
  \/ RunUpdateSyncState
  \/ RunCommitSyncAndReturn
  \/ \E c \in ConcurrentCalls : PeerCallRunIndexer(c)
  \/ PeerInsertTrades
  \/ PeerUpdateSyncState
  \/ \E m \in MarketInputs : CallUpsertMarket(m)

SpecConcurrent == Init /\ [][NextConcurrent]_vars

\* ------------------------------------------------- ingestion and indexing
\* Metadata ingestion (discover_markets, upsert_market) mixed with trade
\* indexing of the first block, by either entry point and with each way a run
\* ends; the events carry at most one market.
NextIngest ==
  \/ \E e \in {x \in GammaEvents : Len(x.markets) <= 1} : CallDiscoverMarkets(e)
  \/ \E m \in RegistryInputs : CallUpsertMarketRegistry(m)
  \/ \E c \in {x \in Calls : x.from_block = 1 /\ x.to_block = 1} : CallRunIndexer(c)
  \/ \E tx \in {t \in TxHashes : get_transaction_block(t) = 1} : CallIndexSingleTransaction(tx)
  \/ \E c \in {x \in Calls : x.from_block = 1 /\ x.to_block = 1} :
       \E j \in 1..Len(CallLogs(c)) : GetBlockFails(c, j)
  \/ Cancel
  \/ RunInsertTrades
  \/ RunCommitTrades
  \/ RunUpdateSyncState
  \/ RunCommitSyncAndReturn

SpecIngest == Init /\ [][NextIngest]_vars

\* ------------------------------------------------- derivation on spelled ids
\* The argument lists of derive_binary_positions: oracle and collateral token
\* in checksum or lowercase spelling, condition_id given or None; the 32-byte
\* ids 0x..ab and 0x..1c are spelled in lowercase, capitals and mixed, padded
\* to 64 digits or shorter.
DeriveInputs ==
  LET IdSpellings ==
        { [zeros |-> z, digits |-> d] :
            z \in {0, HexWidth - 2},
            d \in { <<10, 11>>, <<20, 21>>, <<10, 21>>, <<1, 12>>, <<1, 22>> } }
  IN  { [oracle |-> o, question_id |-> q, collateral_token |-> t, condition_id |-> c] :
          o \in {UMA_ORACLE, lower_addr(UMA_ORACLE)},
          q \in {s \in IdSpellings : s.zeros = 0},
          t \in {USDC_ADDRESS, lower_addr(USDC_ADDRESS)},
          c \in {<<>>} \cup {<<s>> : s \in IdSpellings} }

\* The arguments of a derivation are at hand.
InitPositions ==
  /\ events = <<>> /\ event_seq = 0 /\ markets = <<>> /\ market_seq = 0
  /\ trades = <<>> /\ sync_state = NoSync /\ conn = NoTxn /\ run = Idle /\ peer = Idle
  /\ \E a \in DeriveInputs : ret = [op |-> "arguments", status |-> "returned", args |-> a]

\* derive_binary_positions(oracle, question_id, collateral_token, condition_id)
CallDeriveBinaryPositions ==
  /\ ret.op = "arguments"
  /\ ret' = [op |-> "derive_binary_positions", status |-> "returned", args |-> ret.args,
             positions |-> derive_binary_positions(ret.args.oracle, ret.args.question_id,
                                                   ret.args.collateral_token,
                                                   ret.args.condition_id)]
  /\ UNCHANGED <<events, event_seq, markets, market_seq, trades, sync_state, conn, run, peer>>

SpecPositions == InitPositions /\ [][CallDeriveBinaryPositions]_vars

\* ------------------------------------------------- market creation logs
CONDITIONAL_TOKENS == [hex |-> "4d97dcd97ec945f40cf65f87097ace5ea0476045", cs |-> TRUE]
CONDITION_PREPARATION_TOPIC == "keccak(ConditionPreparation(bytes32,address,bytes32,uint256))"

\* Longest list of logs in the receipt of a market-creation transaction.
MaxReceiptLogs == 3

\* The receipts w3.eth.get_transaction_receipt returns: lists of logs, each a
\* ConditionPreparation log of the ConditionalTokens contract (for condition
\* 0xc1 or 0xc2, each with its own oracle and question), the same event
\* emitted by another contract, another event of ConditionalTokens, or a log
\* without topics.  The logs of the transaction start at logIndex 1 of their
\* block and follow each other.
Receipts ==
  LET Prep(addr, topic0, n) ==
        [address |-> addr,
         topics |-> <<topic0, hex064(192 + n),
                      AddrTopic(IF n = 1 THEN UMA_ORACLE ELSE OTHER_CONTRACT),
                      hex064(208 + n)>>,
         data |-> Word(2)]
      Kinds == { Prep(CONDITIONAL_TOKENS, CONDITION_PREPARATION_TOPIC, 1),
                 Prep(lower_addr(CONDITIONAL_TOKENS), CONDITION_PREPARATION_TOPIC, 2),
                 Prep(OTHER_CONTRACT, CONDITION_PREPARATION_TOPIC, 3),
                 Prep(CONDITIONAL_TOKENS, OTHER_TOPIC, 4),
                 [Prep(CONDITIONAL_TOKENS, OTHER_TOPIC, 5) EXCEPT !.topics = <<>>] }
      Numbered(q) == [i \in 1..Len(q) |->
                        [f \in (DOMAIN q[i]) \cup {"logIndex"} |->
                           IF f = "logIndex" THEN i ELSE q[i][f]]]
  IN  { Numbered(q) : q \in SeqsUpTo(Kinds, MaxReceiptLogs) }

\* parse_condition_preparation_log(log)
parse_condition_preparation_log(log) ==
  [condition_id |-> log.topics[2],
   oracle |-> to_checksum_address([hex |-> log.topics[3].lo, cs |-> FALSE]),
   question_id |-> log.topics[4],
   outcome_slot_count |-> from_bytes(Slice(log.data, 0, SlotBytes))]

\* decode_market_from_tx that takes the last ConditionPreparation log when no
\* log index is given.
decode_market_from_tx_last(logs, log_index) ==
  LET condition_logs ==
        SelectSeq(logs, LAMBDA log :
                    /\ lower_addr(to_checksum_address(log.address)) = lower_addr(CONDITIONAL_TOKENS)
                    /\ Len(log.topics) > 0
                    /\ log.topics[1] = CONDITION_PREPARATION_TOPIC)
      hits == {i \in 1..Len(condition_logs) :
                 Len(log_index) = 1 /\ condition_logs[i].logIndex = log_index[1]}
  IN  IF Len(condition_logs) = 0 THEN [ok |-> FALSE, error |-> "ValueError"]
      ELSE IF Len(log_index) = 1 /\ hits = {} THEN [ok |-> FALSE, error |-> "ValueError"]
      ELSE
        LET target_log == IF Len(log_index) = 1
                            THEN condition_logs[CHOOSE i \in hits : \A j \in hits : i <= j]
                          ELSE condition_logs[Len(condition_logs)]
            params == parse_condition_preparation_log(target_log)
            positions == derive_binary_positions(params.oracle, params.question_id,
                                                 USDC_ADDRESS, <<params.condition_id>>)
        IN  [ok |-> TRUE, error |-> "none",
             condition_id |-> params.condition_id,
             oracle |-> params.oracle,
             question_id |-> params.question_id,
             outcome_slot_count |-> params.outcome_slot_count,
             collateral_token |-> USDC_ADDRESS,
             yes_token_id |-> positions.position_yes,
             no_token_id |-> positions.position_no]

\* stage1 decode_market_from_tx(w3, tx_hash, log_index) on the logs of the
\* receipt; log_index is a list (empty: None).
decode_market_from_tx(logs, log_index) ==
  LET condition_logs ==
        SelectSeq(logs, LAMBDA log :
                    /\ lower_addr(to_checksum_address(log.address)) = lower_addr(CONDITIONAL_TOKENS)
                    /\ Len(log.topics) > 0
                    /\ log.topics[1] = CONDITION_PREPARATION_TOPIC)
      hits == {i \in 1..Len(condition_logs) :
                 Len(log_index) = 1 /\ condition_logs[i].logIndex = log_index[1]}
  IN  IF Len(condition_logs) = 0 THEN [ok |-> FALSE, error |-> "ValueError"]
      ELSE IF Len(log_index) = 1 /\ hits = {} THEN [ok |-> FALSE, error |-> "ValueError"]
      ELSE
        LET target_log == IF Len(log_index) = 1
                            THEN condition_logs[CHOOSE i \in hits : \A j \in hits : i <= j]
                          ELSE condition_logs[1]
            params == parse_condition_preparation_log(target_log)
            positions == derive_binary_positions(params.oracle, params.question_id,
                                                 USDC_ADDRESS, <<params.condition_id>>)
        IN  [ok |-> TRUE, error |-> "none",
             condition_id |-> params.condition_id,
             oracle |-> params.oracle,
             question_id |-> params.question_id,
             outcome_slot_count |-> params.outcome_slot_count,
             collateral_token |-> USDC_ADDRESS,
             yes_token_id |-> positions.position_yes,
             no_token_id |-> positions.position_no]

\* The receipt of the transaction has arrived; log_index is None or an index.
InitMarketTx ==
  /\ events = <<>> /\ event_seq = 0 /\ markets = <<>> /\ market_seq = 0
  /\ trades = <<>> /\ sync_state = NoSync /\ conn = NoTxn /\ run = Idle /\ peer = Idle
  /\ \E r \in Receipts, li \in {<<>>} \cup {<<i>> : i \in 0..MaxReceiptLogs} :
       ret = [op |-> "receipt", status |-> "returned", logs |-> r, log_index |-> li]

CallDecodeMarketFromTx ==
  /\ ret.op = "receipt"
  /\ LET r == decode_market_from_tx(ret.logs, ret.log_index)
     IN  ret' = [op |-> "decode_market_from_tx",
                 status |-> IF r.ok THEN "returned" ELSE "raised", error |-> r.error,
                 logs |-> ret.logs, log_index |-> ret.log_index, params |-> r]
  /\ UNCHANGED <<events, event_seq, markets, market_seq, trades, sync_state, conn, run, peer>>

SpecMarketTx == InitMarketTx /\ [][CallDecodeMarketFromTx]_vars

\* ------------------------------------------------------------- slug clashes
\* Events whose markets share a slug across conditions: "m1" under 0xc1 and
\* under 0xc3, and a market of its own slug.
ClashEvents ==
  LET ClashMarkets ==
        { [slug |-> "m1", conditionId |-> <<"0xc1">>,
           clobTokenIds |-> <<[kind |-> "int", n |-> 1], [kind |-> "int", n |-> 2]>>,
           active |-> TRUE],
          [slug |-> "m1", conditionId |-> <<"0xc3">>,
           clobTokenIds |-> <<[kind |-> "int", n |-> 3], [kind |-> "int", n |-> 4]>>,
           active |-> TRUE],
          [slug |-> "m3", conditionId |-> <<"0xc4">>,
           clobTokenIds |-> <<[kind |-> "int", n |-> 5], [kind |-> "int", n |-> 6]>>,
           active |-> TRUE] }
  IN  { [slug |-> "e1", title |-> "first", markets |-> q] :
          q \in {p \in SeqsUpTo(ClashMarkets, MaxEventMarkets) : NoRepeat(p)} }

\* upsert_market called directly and by discover_markets on one registry.
NextSlugClash ==
  \/ \E m \in RegistryInputs : CallUpsertMarketRegistry(m)
  \/ \E e \in ClashEvents : CallDiscoverMarkets(e)

SpecSlugClash == Init /\ [][NextSlugClash]_vars

\* ---------------------------------------------------------------- properties
TradeKey(t) == <<t.tx_hash, t.log_index>>
StoredKeys(rows) == {TradeKey(rows[i]) : i \in 1..Len(rows)}
RunReturned == ret.op = "run_indexer" /\ ret.status = "returned"
Watermark(table, key) == get_sync_state(table, key)

\* C1: when run_indexer returns from the second of two calls in a row on the
\* same [from_block, to_block] and stream key, its inserted_trades is 0, the
\* stored trades are those left by the first call, and the watermark is the
\* one the first call left: to_block.
C1_Idempotence ==
  (RunReturned /\ ret.repeat) =>
    /\ ret.inserted_trades = 0
    /\ trades = ret.pre.trades
    /\ sync_state = ret.pre.sync_state
    /\ Watermark(sync_state, ret.key) = <<ret.to_block>>

\* A second run in a row has returned, over a batch with trades to store again.
C1_Witness == RunReturned /\ ret.repeat /\ ret.parsed_trades > 0 /\ Len(trades) > 0

\* The unit of work of a batch: the committed database holds both the trades
\* of the batch and the watermark to_block, or is as it was before the call.
BothPersisted(batch, key, to_block) ==
  /\ \A i \in 1..Len(batch) : TradeKey(batch[i]) \in StoredKeys(trades)
  /\ Watermark(sync_state, key) = <<to_block>>
NeitherPersisted(pre) == trades = pre.trades /\ sync_state = pre.sync_state

\* C2: in every state, a run_indexer batch in progress, cancelled or returned
\* has either both its trades and its watermark advance persisted, or neither.
C2_AtomicCommit ==
  /\ run.pc # "idle" =>
       \/ BothPersisted(run.trades, run.sync_state_key, run.to_block)
       \/ NeitherPersisted(run.pre)
  /\ (ret.op = "run_indexer" /\ ret.status = "cancelled") =>
       \/ BothPersisted(ret.batch, ret.key, ret.to_block)
       \/ NeitherPersisted(ret.pre)

\* C3: from one state to the next, no stream key loses its watermark and no
\* stored last_block decreases.
C3_WatermarkMonotonic ==
  [][\A k \in DOMAIN sync_state :
       k \in DOMAIN sync_state' /\ sync_state'[k] >= sync_state[k]]_vars
\* C4: no two stored trades have the same (tx_hash, log_index).
C4_UniqueTradeKey ==
  \A i \in 1..Len(trades) : \A j \in 1..Len(trades) :
    TradeKey(trades[i]) = TradeKey(trades[j]) => i = j

\* insert_trades has returned from a batch that carries one key twice, with
\* different contents, and stored one of the two.
C4_Witness ==
  /\ ret.op = "insert_trades" /\ Len(ret.batch) = 2
  /\ TradeKey(ret.batch[1]) = TradeKey(ret.batch[2])
  /\ ret.batch[1] # ret.batch[2]
  /\ ret.count = 1 /\ Len(trades) >= 2

\* The positions of a batch that are no duplicates: the key was not stored
\* before the call and does not come earlier in the batch.
FreshPositions(pre_rows, batch) ==
  {i \in 1..Len(batch) :
     /\ TradeKey(batch[i]) \notin StoredKeys(pre_rows)
     /\ \A j \in 1..(i - 1) : TradeKey(batch[j]) # TradeKey(batch[i])}

\* C5: insert_trades returns normally; its count is the number of trades of
\* the batch that are no duplicates; every key of the batch is stored exactly
\* once; the rows stored before are untouched; and every trade of the batch
\* that is no duplicate is stored as given.
C5_DuplicateIsNoOp ==
  ret.op = "insert_trades" =>
    LET batch == ret.batch
        pre_rows == ret.pre.trades
        fresh == FreshPositions(pre_rows, batch)
    IN  /\ ret.status = "returned"
        /\ ret.count = Cardinality(fresh)
        /\ \A i \in 1..Len(batch) :
             Cardinality({j \in 1..Len(trades) :
                            TradeKey(trades[j]) = TradeKey(batch[i])}) = 1
        /\ Len(trades) = Len(pre_rows) + Cardinality(fresh)
        /\ SubSeq(trades, 1, Len(pre_rows)) = pre_rows
        /\ \A i \in fresh :
             \E j \in 1..Len(trades) : trades[j] = [batch[i] EXCEPT !.id = j]

\* insert_trades has returned from a batch whose first trade was already
\* stored and whose second was not: one insert counted.
C5_Witness ==
  /\ ret.op = "insert_trades" /\ Len(ret.batch) = 2
  /\ TradeKey(ret.batch[1]) \in StoredKeys(ret.pre.trades)
  /\ TradeKey(ret.batch[2]) \notin StoredKeys(ret.pre.trades)
  /\ ret.count = 1

\* C6: run_indexer never ends with the exception of a decode failure: the
\* only exceptions it surfaces are those of the upstream sources.
C6_DecodeFailureSkipped ==
  (ret.op = "run_indexer" /\ ret.status = "raised") => ret.error = "upstream"

\* The logs of the batch of the run_indexer call that returned last.
ReturnedBatch == FetchedLogs[ret.from_block, ret.to_block]

\* A log that decodes to a trade whose token no stored market carries.
Unresolved(log) ==
  LET d == DecodedLog[<<log.transactionHash, log.logIndex>>]
  IN  /\ d.ok
      /\ \A i \in 1..Len(markets) :
           /\ markets[i].yes_token_id # d.trades[1].token_id
           /\ markets[i].no_token_id # d.trades[1].token_id

\* C7: when run_indexer returns, skipped_trades counts the logs of the batch
\* whose token matches no market, the call stored no trade for any of them,
\* and the watermark of the stream is to_block.
C7_UnresolvedSkipped ==
  RunReturned =>
    LET logs == ReturnedBatch
        unresolved == {i \in 1..Len(logs) : Unresolved(logs[i])}
    IN  /\ ret.skipped_trades = Cardinality(unresolved)
        /\ \A i \in unresolved :
             <<logs[i].transactionHash, logs[i].logIndex>>
               \notin (StoredKeys(trades) \ StoredKeys(ret.pre.trades))
        /\ Watermark(sync_state, ret.key) = <<ret.to_block>>

\* run_indexer has returned from a batch with a resolved trade, which it
\* stored, and an unresolved one, which it skipped.
C7_Witness ==
  /\ RunReturned /\ Len(markets) > 0
  /\ ret.skipped_trades > 0 /\ ret.inserted_trades > 0

\* A trade whose taker is the exchange that emitted the log.
SelfFill(t) == lower_addr(t.taker) = lower_addr(t.exchange)

\* C8: no stored trade and no trade returned by decode_transaction has the
\* emitting exchange as its taker.
C8_SelfFillExcluded ==
  /\ \A i \in 1..Len(trades) : ~SelfFill(trades[i])
  /\ (ret.op = "decode_transaction" /\ ret.status = "returned") =>
       \A i \in 1..Len(ret.trades) : ~SelfFill(ret.trades[i])

\* C9: when run_indexer ends with an upstream failure, the committed trades
\* and watermarks are those of before the call and no transaction is open.
C9_UpstreamFailureKeepsStore ==
  (ret.op = "run_indexer" /\ ret.status = "raised" /\ ret.error = "upstream") =>
    /\ Committed = ret.pre
    /\ conn = NoTxn

\* run_indexer has ended with an upstream failure while the store held trades
\* and a watermark.
C9_Witness ==
  /\ ret.op = "run_indexer" /\ ret.status = "raised" /\ ret.error = "upstream"
  /\ Len(trades) > 0 /\ DOMAIN sync_state # {}

\* A log that is no well-formed OrderFilled log.
Malformed(log) ==
  \/ Len(log.topics) < 4
  \/ Len(log.data) < 5 * SlotBytes
  \/ log.topics[1] # ORDER_FILLED_TOPIC

\* C10: no stored trade and no trade returned by decode_transaction comes
\* from a malformed log, and neither run_indexer nor decode_transaction ends
\* with the exception of a decode failure.
C10_MalformedRejected ==
  /\ \A i \in 1..Len(trades) : ~Malformed(LogAt(trades[i].tx_hash, trades[i].log_index))
  /\ (ret.op = "decode_transaction" /\ ret.status = "returned") =>
       \A i \in 1..Len(ret.trades) :
         ~Malformed(LogAt(ret.trades[i].tx_hash, ret.trades[i].log_index))
  /\ (ret.op \in {"run_indexer", "decode_transaction"} /\ ret.status = "raised") =>
       ret.error = "upstream"

\* C11: the ledger is append-only.  Every step of run_indexer, insert_trades,
\* upsert_market, upsert_event, update_sync_state and the queries leaves each
\* trade already in the table in place and unchanged, id included: the table
\* after the step starts with the table before it.
C11_AppendOnly ==
  [][/\ Len(trades') >= Len(trades)
     /\ SubSeq(trades', 1, Len(trades)) = trades]_vars

\* Trades are stored and a later insert_trades call brought a record whose
\* (tx_hash, log_index) is already stored with other contents.
C11_Witness ==
  /\ ret.op = "insert_trades"
  /\ Len(ret.pre.trades) > 0
  /\ \E i \in 1..Len(ret.batch) : \E j \in 1..Len(ret.pre.trades) :
       /\ TradeKey(ret.batch[i]) = TradeKey(ret.pre.trades[j])
       /\ [ret.batch[i] EXCEPT !.id = 0] # [ret.pre.trades[j] EXCEPT !.id = 0]

\* C12: only logs emitted by CTF_EXCHANGE or NEGRISK_CTF_EXCHANGE are
\* accepted.  Every trade decode_transaction returns and every trade
\* run_indexer has persisted carries one of the two addresses as its exchange.
C12_KnownExchangeOnly ==
  /\ \A i \in 1..Len(trades) : trades[i].exchange \in DefaultExchanges
  /\ (ret.op = "decode_transaction" /\ ret.status = "returned"
        => \A i \in 1..Len(ret.trades) : ret.trades[i].exchange \in DefaultExchanges)

RECURSIVE Gcd(_, _)
Gcd(a, b) == IF b = 0 THEN a ELSE Gcd(b, a % b)

\* The digits a printed price has after the point, as a number of units of
\* the sixth decimal.
FracMicros(p) == DigitsValue(p.frac \o [i \in 1..(6 - Len(p.frac)) |-> 0])

\* p is num / den to six decimals (at most half a unit of the sixth decimal
\* away) printed without trailing zeros, and "0" when den is 0.
IsPriceOf(p, num, den) ==
  IF den = 0 THEN p = [int |-> 0, frac |-> <<>>]
  ELSE LET g == Gcd(num, den)
           n == num \div g
           d == den \div g
           diff == ((p.int - n \div d) * 1000000 + FracMicros(p)) * d - (n % d) * 1000000
       IN  /\ Len(p.frac) <= 6
           /\ (Len(p.frac) > 0 => p.frac[Len(p.frac)] # 0)
           /\ p.int \in {n \div d, n \div d + 1}
           /\ 2 * diff <= d /\ 2 * diff >= 0 - d

\* id is the number n written as 64 lowercase hex digits.
IsHex64Of(id, n) ==
  /\ id.zeros + Len(id.digits) = 64
  /\ \A i \in 1..Len(id.digits) : id.digits[i] \in 0..15
  /\ (Len(id.digits) > 0 => id.digits[1] # 0)
  /\ n = IF Len(id.digits) = 0 THEN 0
         ELSE IF Len(id.digits) = 1 THEN id.digits[1]
         ELSE id.digits[1] * 16 + id.digits[2]

SideRule(t, s) ==
  IF s[1] = 0
  THEN /\ t.side = "BUY" /\ IsHex64Of(t.token_id, s[2]) /\ IsPriceOf(t.price, s[3], s[4])
  ELSE /\ t.side = "SELL" /\ IsHex64Of(t.token_id, s[1]) /\ IsPriceOf(t.price, s[4], s[3])

\* C13: the side/price rule.  For every choice of data slots both decoders
\* return one trade with: makerAssetId = 0 gives BUY, tokenId = takerAssetId,
\* price = makerAmountFilled / takerAmountFilled (0 when that is 0); otherwise
\* SELL, tokenId = makerAssetId, price = takerAmountFilled /
\* makerAmountFilled (0 when that is 0); the price has six decimals with the
\* trailing zeros trimmed; slots (0, 1, 1000000, 2000000) give BUY, token
\* 0x00..01, price "0.5".
C13_SidePriceRule ==
  ret.op = "decode_order_filled" =>
    /\ \A r \in {ret.stage1, ret.stage2} :
         /\ r.ok /\ Len(r.trades) = 1
         /\ SideRule(r.trades[1], ret.slots)
    /\ (ret.slots = <<0, 1, 1000000, 2000000, 0>> =>
          \A r \in {ret.stage1, ret.stage2} :
            /\ r.trades[1].side = "BUY"
            /\ r.trades[1].token_id = [zeros |-> 63, digits |-> <<1>>]
            /\ r.trades[1].price = [int |-> 0, frac |-> <<5>>])

\* A SELL whose quotient 2 / 3 is rounded up in the sixth decimal has been decoded.
C13_Witness ==
  /\ ret.op = "decode_order_filled"
  /\ ret.slots[1] # 0 /\ ret.slots[4] = 2 /\ ret.slots[3] = 3
  /\ ret.stage2.trades[1].price = [int |-> 0, frac |-> <<6, 6, 6, 6, 6, 7>>]

\* The stored markets one of whose token ids is token_id up to letter case.
MarketsOfToken(rows, token_id) ==
  {i \in 1..Len(rows) :
     \/ lower_hex(rows[i].yes_token_id) = lower_hex(token_id)
     \/ lower_hex(rows[i].no_token_id) = lower_hex(token_id)}

\* C14: resolve is an exact, case-insensitive match.  A lookup returns a
\* stored market carrying the token (letter case ignored) whenever there is
\* one, and None only when there is none.
C14_ResolveCaseInsensitive ==
  ret.op = "fetch_market_by_token_id" =>
    IF MarketsOfToken(markets, ret.token_id) = {}
    THEN ret.market = <<>>
    ELSE /\ Len(ret.market) = 1
         /\ \E i \in MarketsOfToken(markets, ret.token_id) : ret.market[1] = markets[i]

\* The stored row of a market description: the description with its id.
StoredAs(row, m) == row = [id |-> row.id, slug |-> m.slug, condition_id |-> m.condition_id,
                           yes_token_id |-> m.yes_token_id, no_token_id |-> m.no_token_id,
                           status |-> m.status]

\* C15: upsert_market is an idempotent insert-or-update keyed by condition_id.
\* At most one market is stored per condition_id; upserting a market that is
\* stored as given leaves the registry as it was; every upsert returns, and
\* returns the id under which its condition_id was and is stored.
C15_UpsertIdempotent ==
  /\ \A i, j \in 1..Len(markets) :
       markets[i].condition_id = markets[j].condition_id => i = j
  /\ (ret.op = "upsert_market" =>
        /\ ((\E i \in 1..Len(ret.pre) : StoredAs(ret.pre[i], ret.market)) => markets = ret.pre)
        /\ ret.status = "returned"
        /\ \E i \in 1..Len(markets) :
             markets[i].id = ret.id /\ markets[i].condition_id = ret.market.condition_id
        /\ \A i \in 1..Len(ret.pre) :
             ret.pre[i].condition_id = ret.market.condition_id => ret.pre[i].id = ret.id)

\* The number a clobTokenIds entry stands for.
EntryValue(e) ==
  IF e.kind = "int" THEN e.n
  ELSE IF e.kind = "dec" THEN DigitsValue(e.digits)
  ELSE IF Len(e.digits) = 0 THEN 0
  ELSE IF Len(e.digits) = 1 THEN lower_digit(e.digits[1])
  ELSE lower_digit(e.digits[1]) * 16 + lower_digit(e.digits[2])

\* C16: token identifiers are normalized to one canonical form.  For entries
\* given as decimal string, int or hex string of any letter case and length,
\* parse_market_from_gamma and extract_market_params both give the value as
\* 64 zero-padded lowercase hex digits.
C16_TokenIdsNormalized ==
  ret.op \in {"parse_market_from_gamma", "extract_market_params"} =>
    /\ ret.market.yes_token_id = <<hex064(EntryValue(ret.data.clobTokenIds[1]))>>
    /\ ret.market.no_token_id = <<hex064(EntryValue(ret.data.clobTokenIds[2]))>>

\* The two token ids the metadata supplied, as extract_market_params hands
\* them on, and the positions recomputed from the condition id.
ExternalIds == ret.params.gamma.clob_token_ids
Recomputed ==
  derive_binary_positions(UMA_ORACLE, hexstr(ret.params.condition_id), USDC_ADDRESS,
                          <<hexstr(ret.params.condition_id)>>)
Decoded == ret.op = "decode_market_from_gamma" /\ Len(ret.data.conditionId) = 1

\* The supplied ids are the recomputed YES and NO ids, letter case aside.
AgreeInOrder ==
  /\ lower_token(ExternalIds[1]) = Recomputed.position_yes
  /\ lower_token(ExternalIds[2]) = Recomputed.position_no
\* The supplied ids are the recomputed NO and YES ids, letter case aside.
AgreeExchanged ==
  /\ lower_token(ExternalIds[1]) = Recomputed.position_no
  /\ lower_token(ExternalIds[2]) = Recomputed.position_yes

ReturnsExternal ==
  /\ ret.status = "returned"
  /\ ret.params.yes_token_id = ExternalIds[1] /\ ret.params.no_token_id = ExternalIds[2]
ReturnsRecomputed ==
  /\ ret.status = "returned"
  /\ ret.params.yes_token_id = Recomputed.position_yes
  /\ ret.params.no_token_id = Recomputed.position_no

\* C17 as stated: whenever the two supplied token ids differ from the
\* recomputed YES/NO ids, decode_market_from_gamma returns the supplied first
\* and second id; when they agree, it returns the recomputed ids.
C17_ExternalWins ==
  Decoded => IF AgreeInOrder THEN ReturnsRecomputed ELSE ReturnsExternal

\* C17, amended: the supplied ids win when they differ from the recomputed
\* pair in both orders; when they are the recomputed pair in either order,
\* the recomputed YES and NO ids are returned.  The call returns in all cases.
C17_ExternalWinsUnlessPermuted ==
  Decoded => IF AgreeInOrder \/ AgreeExchanged THEN ReturnsRecomputed ELSE ReturnsExternal

\* The metadata supplied ids that differ from both recomputed ones, and the
\* call returned them.
C17_Witness ==
  /\ Decoded /\ ~AgreeInOrder /\ ~AgreeExchanged /\ ReturnsExternal

\* C18: a missing condition id is fatal for that market only.  After
\* discover_markets no market is stored for a description without
\* conditionId, and every other market of the event is stored under its own
\* condition_id.
C18_MissingConditionIdSkipsOne ==
  ret.op = "discover_markets" =>
    /\ \A i \in 1..Len(markets) : markets[i].condition_id # ""
    /\ \A k \in 1..Len(ret.event.markets) :
         LET d == ret.event.markets[k]
         IN  IF Len(d.conditionId) = 0
             THEN \A i \in 1..Len(markets) : markets[i].slug # d.slug
             ELSE \E i \in 1..Len(markets) :
                    markets[i].condition_id = d.conditionId[1] /\ markets[i].slug = d.slug

\* The stored trades a query asks for: of its market or token, with
\* block_number within the bounds that are given.
Asked(q) ==
  {i \in 1..Len(trades) :
     /\ IF q.sel.by = "market" THEN trades[i].market_id = q.sel.market_id
        ELSE trades[i].token_id = q.sel.token_id
     /\ (q.from_block # <<>> => trades[i].block_number >= q.from_block[1])
     /\ (q.to_block # <<>> => trades[i].block_number <= q.to_block[1])}

Before(a, b) ==
  \/ a.block_number < b.block_number
  \/ a.block_number = b.block_number /\ a.log_index < b.log_index

\* C19: query ordering and filtering.  A query returns only trades of the
\* requested market or token within the inclusive block range, each once and
\* as stored, non-decreasing by (block_number, log_index); it skips the first
\* cursor of them in that order and returns at most limit.
C19_QueryOrderFilterPage ==
  ret.op = "fetch_trades" =>
    LET q == ret.query
        out == ret.trades
        asked == Asked(q)
        left == IF Cardinality(asked) > q.cursor THEN Cardinality(asked) - q.cursor ELSE 0
    IN  /\ \A k \in 1..Len(out) : \E i \in asked :
             /\ out[k].trade_id = trades[i].id
             /\ \A f \in (DOMAIN trades[i]) \ {"id"} : out[k][f] = trades[i][f]
        /\ \A k, l \in 1..Len(out) : k < l =>
             /\ ~Before(out[l], out[k])
             /\ out[k].trade_id # out[l].trade_id
        /\ Len(out) = Min(q.limit, left)
        /\ \A k \in 1..Len(out) :
             /\ Cardinality({i \in asked : Before(trades[i], out[k])}) <= q.cursor + k - 1
             /\ Cardinality({i \in asked : ~Before(out[k], trades[i])}) >= q.cursor + k

\* A query with a block range and a cursor above 0 returned a trade while the
\* stored trades it asks for are not in (block_number, log_index) order.
C19_Witness ==
  /\ ret.op = "fetch_trades"
  /\ ret.query.cursor > 0 /\ ret.query.from_block # <<>> /\ ret.query.to_block # <<>>
  /\ Len(ret.trades) > 0
  /\ \E i, j \in Asked(ret.query) : i < j /\ Before(trades[j], trades[i])

\* A run is between the start of its insert-trades step and the end of its
\* write-watermark step.
MainInSteps == run.pc \in {"commit_trades", "update", "commit_sync"}
PeerInSteps == peer.pc = "update"

\* C20: concurrent indexing of one stream key is serialized.  Two runs on
\* the same sync_state_key are never both between their insert-trades and
\* write-watermark steps, and a run that overlapped another one does not
\* leave the watermark below the to_block of the run that returned before it.
C20_SameKeySerialized ==
  /\ ~(MainInSteps /\ PeerInSteps /\ run.sync_state_key = peer.sync_state_key)
  /\ (peer.pc = "idle" /\ "earlier" \in DOMAIN peer /\ peer.overlap /\ peer.earlier # <<>>
        => peer.to_block >= peer.earlier[1])

\* C21: markets are never deleted, only deactivated.  Every step of
\* discover_markets, upsert_market and run_indexer leaves each stored
\* condition_id stored under the internal market id it had.
C21_MarketsNeverDeleted ==
  [][\A i \in 1..Len(markets) : \E j \in 1..Len(markets') :
       /\ markets'[j].condition_id = markets[i].condition_id
       /\ markets'[j].id = markets[i].id]_vars

\* A stored market was ingested again with another status while other markets
\* and trades are stored.
C21_Witness ==
  /\ ret.op = "upsert_market" /\ ret.status = "returned"
  /\ Len(markets) >= 2
  /\ \E i \in 1..Len(ret.pre) :
       /\ ret.pre[i].condition_id = ret.market.condition_id
       /\ ret.pre[i].status # ret.market.status
       /\ markets[i].status = ret.market.status

\* The 64-digit lowercase spelling of a hex string.
Canonical(s) == [zeros |-> HexWidth - Len(s.digits), digits |-> lower_hex(s).digits]

PreparationLogs(logs) ==
  {i \in 1..Len(logs) :
     /\ logs[i].address.hex = CONDITIONAL_TOKENS.hex
     /\ logs[i].topics # <<>>
     /\ logs[i].topics[1] = CONDITION_PREPARATION_TOPIC}

\* Every field of the parameters is read or derived from the one log.
ParamsFrom(p, log) ==
  /\ p.condition_id = log.topics[2]
  /\ p.oracle.hex = log.topics[3].lo
  /\ p.question_id = log.topics[4]
  /\ p.outcome_slot_count = 2
  /\ p.yes_token_id = get_position_id(USDC_ADDRESS, get_collection_id(ZERO_COLLECTION, log.topics[2], 1))
  /\ p.no_token_id = get_position_id(USDC_ADDRESS, get_collection_id(ZERO_COLLECTION, log.topics[2], 2))

\* C23: decode_market_from_tx never merges logs.  With no ConditionPreparation
\* log of ConditionalTokens in the receipt the call raises; with a log_index
\* it returns the parameters of the such log with that logIndex and raises
\* when there is none; without a log_index it returns the parameters of the
\* first such log in receipt order.
C23_OneLogSelected ==
  ret.op = "decode_market_from_tx" =>
    LET prep == PreparationLogs(ret.logs)
        wanted == IF ret.log_index = <<>>
                    THEN {i \in prep : \A j \in prep : i <= j}
                  ELSE {i \in prep : ret.logs[i].logIndex = ret.log_index[1]}
    IN  IF wanted = {} THEN ret.status = "raised"
        ELSE /\ ret.status = "returned"
             /\ \A i \in wanted : ParamsFrom(ret.params, ret.logs[i])

\* A receipt with two ConditionPreparation logs of different conditions was
\* decoded without a log index.
C23_Witness ==
  /\ ret.op = "decode_market_from_tx" /\ ret.status = "returned"
  /\ ret.log_index = <<>>
  /\ \E i, j \in PreparationLogs(ret.logs) : ret.logs[i].topics[2] # ret.logs[j].topics[2]

\* C24: a run for a single designated transaction persists trades of that
\* transaction only.  Once index_single_transaction(T) has committed its
\* trades, every trade it added to the table has tx_hash = T; and every trade
\* decode_transaction(T) returns has tx_hash = T.
C24_SingleTransactionOnly ==
  /\ (run.pc \in {"update", "commit_sync"} /\ run.tx_hash # <<>>) =>
       \A i \in (Len(run.pre.trades) + 1)..Len(trades) : trades[i].tx_hash = run.tx_hash[1]
  /\ (ret.op = "decode_transaction" /\ ret.status = "returned") =>
       \A i \in 1..Len(ret.trades) : ret.trades[i].tx_hash = ret.tx_hash

\* C25 as stated: the ordering below, and in no state does the watermark of
\* the stream equal the to_block of the batch in progress while a resolved
\* trade of that batch is not in the committed table.
C25_NoWatermarkBeforeTrades ==
  run.pc # "idle" =>
    /\ run.pc \in {"update", "commit_sync"} =>
         \A i \in 1..Len(run.trades) : TradeKey(run.trades[i]) \in StoredKeys(trades)
    /\ ~ /\ Watermark(sync_state, run.sync_state_key) = <<run.to_block>>
         /\ \E i \in 1..Len(run.trades) : TradeKey(run.trades[i]) \notin StoredKeys(trades)

\* C25, amended: commit ordering in run_indexer.  While a run has not committed its
\* insert_trades, it has written nothing to sync_state, committed or not;
\* once it is at or past its write of the watermark, every trade of its
\* batch is in the committed table and no trade is left uncommitted.
C25_WatermarkAfterTrades ==
  /\ run.pc \in {"insert", "commit_trades"} =>
       /\ sync_state = run.pre.sync_state
       /\ (conn.open => conn.sync_state = sync_state)
  /\ run.pc \in {"update", "commit_sync"} =>
       /\ \A i \in 1..Len(run.trades) : TradeKey(run.trades[i]) \in StoredKeys(trades)
       /\ (conn.open => conn.trades = trades)

\* A run that inserted trades is about to write a watermark that differs from
\* the stored one.
C25_Witness ==
  /\ run.pc = "update" /\ run.inserted_count > 0
  /\ Watermark(sync_state, run.sync_state_key) # <<run.to_block>>

\* C26: block timestamps are resolved once per distinct block number per run.
\* In a run past its for loop, w3.eth.get_block was asked exactly once for
\* each block number among the logs of the batch and for no other, whatever
\* earlier runs asked; and the trades of one block carry one timestamp, that
\* of their block.
C26_TimestampOncePerBlock ==
  run.pc # "idle" =>
    /\ \A i, j \in 1..Len(run.queried) : run.queried[i] = run.queried[j] => i = j
    /\ {run.queried[i] : i \in 1..Len(run.queried)}
         = {run.logs[i].blockNumber : i \in 1..Len(run.logs)}
    /\ DOMAIN run.timestamp_cache = {run.queried[i] : i \in 1..Len(run.queried)}
    /\ \A i, j \in 1..Len(run.trades) :
         run.trades[i].block_number = run.trades[j].block_number
           => run.trades[i].timestamp = run.trades[j].timestamp
    /\ \A i \in 1..Len(run.trades) :
         run.trades[i].timestamp = format_timestamp(BlockTimestamp(run.trades[i].block_number))

\* A run repeats the run before it over a batch of two blocks with several
\* logs each, and has asked for both blocks again.
C26_Witness ==
  /\ run.pc # "idle" /\ run.repeat
  /\ Len(run.queried) = 2 /\ Len(run.logs) > 3 /\ Len(run.trades) >= 2

\* C27: trade indexing does not write the Market Registry.  A step of
\* run_indexer or index_single_transaction - the call with its for loop, each
\* store call of the run, its return, an exception of the block source, a
\* cancellation - leaves the stored markets and events as they were; a step
\* that changes them is a discover_markets or an upsert_market call.
C27_IndexingLeavesRegistry ==
  [][ /\ (run' # run \/ run.pc # "idle"
            \/ ret'.op \in {"run_indexer", "index_single_transaction"})
         => UNCHANGED <<markets, market_seq, events, event_seq>>
      /\ (markets' # markets \/ events' # events)
         => ret'.op \in {"discover_markets", "upsert_market"} ]_vars

\* A run that parsed trades against a registry filled by discover_markets has
\* returned, the registry still holding the market.
C27_Witness ==
  /\ ret.op = "run_indexer" /\ ret.status = "returned" /\ ret.parsed_trades > 0
  /\ Len(markets) > 0 /\ Len(events) > 0

\* C28: every trade persisted by run_indexer has outcome YES or NO, never
\* UNKNOWN.  The rows of the trades table, of the open transaction and of the
\* batch of a run are labelled YES or NO; and in the batch - parsed against
\* the registry as it still is - a YES trade carries the yes_token_id and a NO
\* trade the no_token_id of the market its market_id names.
C28_OutcomeYesOrNo ==
  LET Labelled(rows) == \A i \in 1..Len(rows) : rows[i].outcome \in {"YES", "NO"}
      MarketOf(t) == CHOOSE m \in {markets[i] : i \in 1..Len(markets)} : m.id = t.market_id
  IN  /\ Labelled(trades)
      /\ conn.open => Labelled(conn.trades)
      /\ run.pc # "idle" =>
           \A i \in 1..Len(run.trades) :
             LET t == run.trades[i]
             IN  /\ \E k \in 1..Len(markets) : markets[k].id = t.market_id
                 /\ t.outcome = "YES" => t.token_id = MarketOf(t).yes_token_id
                 /\ t.outcome = "NO" => t.token_id = MarketOf(t).no_token_id
                 /\ t.outcome \in {"YES", "NO"}

\* The table holds a YES trade and a NO trade after a run that also met a log
\* of a token no market has.
C28_Witness ==
  /\ ret.op = "run_indexer" /\ ret.status = "returned" /\ ret.skipped_trades > 0
  /\ \E i, j \in 1..Len(trades) : trades[i].outcome = "YES" /\ trades[j].outcome = "NO"

\* C29: counter conservation in every result run_indexer returns.  In the step
\* that returns, total_logs is the number of logs fetched and equals
\* parsed_trades + skipped_trades; inserted_trades lies between 0 and
\* parsed_trades; and parsed_trades - inserted_trades is the number of trades
\* of the batch whose (tx_hash, log_index) was stored before the call or comes
\* earlier in the batch.
C29_CounterConservation ==
  [][ (run.pc = "commit_sync" /\ ret'.op = "run_indexer" /\ ret'.status = "returned") =>
        LET batch == run.trades
            duplicates == (1..Len(batch)) \ FreshPositions(run.pre.trades, batch)
        IN  /\ ret'.total_logs = Len(run.logs)
            /\ ret'.parsed_trades = Len(batch)
            /\ ret'.total_logs = ret'.parsed_trades + ret'.skipped_trades
            /\ 0 <= ret'.inserted_trades /\ ret'.inserted_trades <= ret'.parsed_trades
            /\ ret'.parsed_trades - ret'.inserted_trades = Cardinality(duplicates) ]_vars

\* A returned run that skipped a log, inserted a trade and met a stored one.
C29_Witness ==
  /\ ret.op = "run_indexer" /\ ret.status = "returned"
  /\ ret.skipped_trades > 0
  /\ 0 < ret.inserted_trades /\ ret.inserted_trades < ret.parsed_trades

\* The slug of market m is stored under another condition_id.
SlugHeld(rows, m) ==
  \E i \in 1..Len(rows) : rows[i].slug = m.slug /\ rows[i].condition_id # m.condition_id

\* C30: upsert_market of a market whose slug is already stored under a
\* different condition_id ends with IntegrityError and leaves the markets table
\* and its rowid counter as they were; and a discover_markets call that meets
\* such a market at position k of its event ends with that error, the
\* registry holding the upserts of the k - 1 markets before it and nothing of
\* the markets from k on.
C30_SlugClashChangesNothing ==
  [][ /\ (ret'.op = "upsert_market" /\ SlugHeld(markets, ret'.market)) =>
           /\ ret'.status = "raised" /\ ret'.error = "IntegrityError"
           /\ markets' = markets /\ market_seq' = market_seq
      /\ ret'.op = "discover_markets" =>
           LET list == ret'.event.markets
               info(j) == market_row(parse_market_from_gamma(list[j]))
               before(j) == discover_loop(SubSeq(list, 1, j - 1), markets, market_seq, 0)
               clashes == {j \in 1..Len(list) : before(j).ok /\ SlugHeld(before(j).rows, info(j))}
           IN  clashes # {} =>
                 LET k == CHOOSE j \in clashes : TRUE
                 IN  /\ ret'.status = "raised" /\ ret'.error = "IntegrityError"
                     /\ ret'.total_markets = k - 1
                     /\ markets' = before(k).rows /\ market_seq' = before(k).seq
    ]_vars

\* discover_markets ended with the integrity error at the first market of an
\* event of two, and the second market is not in the registry.
C30_Witness ==
  /\ ret.op = "discover_markets" /\ ret.status = "raised" /\ ret.error = "IntegrityError"
  /\ Len(ret.event.markets) = 2 /\ ret.total_markets = 0
  /\ Len(markets) > 0
  /\ \A i \in 1..Len(markets) :
       markets[i].condition_id # parse_market_from_gamma(ret.event.markets[2]).condition_id

====
